---------------------------- MODULE Spec2Model ----------------------------
(***************************************************************************)
(* A model of the comparable-listings retrieval and price estimation      *)
(* engine of LuxPricer (Backend/utils/pricing_logic.py and                 *)
(* the modules under Backend/services/rag).                                *)
(*                                                                         *)
(* Python values are modelled as tagged records [t, v] where v is always   *)
(* a sequence of strings and a string is a sequence of one-character       *)
(* strings, so that lower(), strip(), split() and the `in` operator are    *)
(* computed character by character as Python computes them.               *)
(* Scores are fixed-point numbers: similarity scores in units of           *)
(* 1/SimScale, retrieval and rerank scores in units of 1/ScoreScale.       *)
(***************************************************************************)
EXTENDS Integers, Sequences, FiniteSets, TLC

VARIABLES
    item_a, item_b, total_score,                   \* one call of calculate_similarity_score
    target_item_input, all_listings, estimate,     \* one call of utils estimate_price
    items, index,                                  \* VectorStore.items, VectorStore.index
    call,                                          \* the last retrieval or rerank operation
    embedding_dim, index_d,                        \* VectorStore.embedding_dim, index.d
    embedder_dim,                                  \* VectorStore.embedder.embedding_dim
    directory,                                     \* the files save() wrote
    trend_file,                                    \* the contents of REAL_TRENDS_FILE
    requests                                       \* the estimate_price requests in progress

simVars == <<item_a, item_b, total_score>>
estVars == <<target_item_input, all_listings, estimate>>
storeVars == <<items, index>>
ragVars == <<storeVars, call>>
loadVars == <<embedding_dim, index_d, embedder_dim, directory>>
trendVars == <<trend_file, requests>>
vars == <<simVars, estVars, ragVars, loadVars, trendVars>>

\* VectorStore(): embedding_dim defaults to 1536, as does TextEmbedder's
DefaultEmbeddingDim == 1536

\* the directory the store is saved to does not exist
NoDirectory == [exists |-> FALSE]

\* a store built by VectorStore() with the default embedder, nothing saved
DefaultStore ==
    /\ embedding_dim = DefaultEmbeddingDim
    /\ index_d = DefaultEmbeddingDim
    /\ embedder_dim = DefaultEmbeddingDim
    /\ directory = NoDirectory

\* REAL_TRENDS_FILE does not exist
NoFile == [exists |-> FALSE, data |-> <<>>]

\* the trend file with the list written to it
FileWith(data) == [exists |-> TRUE, data |-> data]

\* no request is in progress and no trend data was saved
NoRequests == trend_file = NoFile /\ requests = <<>>

\* no retrieval or rerank operation has run on the store as it is now
NoCall == [op |-> "none"]

---------------------------------------------------------------------------
(* Python strings and values                                               *)

\* str.lower() on one character
LowerChar(c) ==
    CASE c = "G" -> "g"
      [] c = "P" -> "p"
      [] c = "B" -> "b"
      [] c = "X" -> "x"
      [] c = "M" -> "m"
      [] c = "L" -> "l"
      [] c = "N" -> "n"
      [] c = "E" -> "e"
      [] c = "F" -> "f"
      [] c = "V" -> "v"
      [] c = "C" -> "c"
      [] c = "H" -> "h"
      [] OTHER -> c

\* str.lower()
Lower(s) == [i \in 1..Len(s) |-> LowerChar(s[i])]

IsSpace(c) == c = " "

RECURSIVE LStrip(_)
LStrip(s) == IF s # <<>> /\ IsSpace(Head(s)) THEN LStrip(Tail(s)) ELSE s

RECURSIVE RStrip(_)
RStrip(s) ==
    IF s # <<>> /\ IsSpace(s[Len(s)]) THEN RStrip(SubSeq(s, 1, Len(s) - 1)) ELSE s

\* str.strip()
Strip(s) == RStrip(LStrip(s))

\* str.split(): the list of maximal runs of non-space characters
RECURSIVE SplitFrom(_, _, _)
SplitFrom(s, i, cur) ==
    IF i > Len(s)
    THEN IF cur = <<>> THEN <<>> ELSE <<cur>>
    ELSE IF IsSpace(s[i])
         THEN (IF cur = <<>> THEN <<>> ELSE <<cur>>) \o SplitFrom(s, i + 1, <<>>)
         ELSE SplitFrom(s, i + 1, Append(cur, s[i]))

Split(s) == SplitFrom(s, 1, <<>>)

\* set(list)
ToSet(l) == {l[i] : i \in 1..Len(l)}

\* `sub in s` for strings
Contains(sub, s) ==
    \E i \in 0..(Len(s) - Len(sub)) : SubSeq(s, i + 1, i + Len(sub)) = sub

Min(a, b) == IF a <= b THEN a ELSE b
Max(a, b) == IF a >= b THEN a ELSE b

\* Python values: None, a str, a list of str
PyNone == [t |-> "none", v |-> <<>>]
PyStr(s) == [t |-> "str", v |-> <<s>>]
PyList(l) == [t |-> "list", v |-> l]
\* an int or float
PyNum(n) == [t |-> "num", v |-> <<>>, n |-> n]

IsNone(x) == x.t = "none"
\* x == "" in Python: only the empty string equals ""
IsEmptyStr(x) == x.t = "str" /\ x.v = <<<<>>>>

\* dict.get(key, default)
Get(d, key, default) == IF key \in DOMAIN d THEN d[key] ELSE default

\* d[key] = value
SetKey(d, key, value) ==
    [k \in DOMAIN d \cup {key} |-> IF k = key THEN value ELSE d[k]]

\* d.setdefault(key, value)
SetDefault(d, key, value) == IF key \in DOMAIN d THEN d ELSE SetKey(d, key, value)

\* the empty dict
EmptyDict == [k \in {} |-> PyNone]

\* str(x) for None and for a str (the reading of a scalar attribute)
Str(x) ==
    CASE x.t = "none" -> <<"N", "o", "n", "e">>
      [] x.t = "str" -> x.v[1]
      [] OTHER -> <<"[", "]">>    \* a list prints with brackets; never equal to a scalar

\* bool(x) of a Python value: None, "" and [] are falsy
Truthy(x) ==
    CASE x.t = "none" -> FALSE
      [] x.t = "str" -> x.v[1] # <<>>
      [] x.t = "num" -> x.n # 0
      [] OTHER -> x.v # <<>>

---------------------------------------------------------------------------
(* utils/pricing_logic.py: constants                                       *)

\* scores are counted in units of 1/SimScale; SIMILARITY_WEIGHTS in percent
SimScale == 100 * 48
W_designer == 35
W_model == 30
W_size == 15
W_material == 10
W_color == 10

MIN_COMPARABLE_LISTINGS == 5
\* 0.15 and 0.8 in units of 1/SimScale
MIN_SIMILARITY_THRESHOLD == 15 * 48
EXACT_MATCH_SIMILARITY_SCORE == 80 * 48

---------------------------------------------------------------------------
(* utils/pricing_logic.py: calculate_similarity_score                      *)

\* the attribute as the code reads it: str(item.get(key, "")).lower()
Field(item, key) == Lower(Str(Get(item, key, PyStr(<<>>))))

\* model sub-score in units of 1/48: 0 when a model is missing or has no word,
\* 1 when the stripped strings are equal, else Jaccard * (0.5 + 0.5 * length_ratio)
ModelScore(item_1, item_2) ==
    LET model_a == Field(item_1, "model")
        model_b == Field(item_2, "model")
        words_a == ToSet(Split(model_a))
        words_b == ToSet(Split(model_b))
        intersection == Cardinality(words_a \cap words_b)
        union == Cardinality(words_a \cup words_b)
        la == Cardinality(words_a)
        lb == Cardinality(words_b)
    IN  IF model_a = <<>> \/ model_b = <<>> THEN 0
        ELSE IF la = 0 \/ lb = 0 THEN 0
        ELSE IF union > 0
             THEN IF Strip(model_a) = Strip(model_b) THEN 48
                  ELSE (48 * intersection * (Max(la, lb) + Min(la, lb)))
                           \div (2 * union * Max(la, lb))
             ELSE 0

\* size sub-score in units of 1/48
SizeScore(item_1, item_2) ==
    LET size_a == Get(item_1, "size", PyNone)
        size_b == Get(item_2, "size", PyNone)
        miss_a == IsNone(size_a) \/ IsEmptyStr(size_a)
        miss_b == IsNone(size_b) \/ IsEmptyStr(size_b)
    IN  IF miss_a /\ miss_b THEN 24
        ELSE IF miss_a \/ miss_b THEN 0
        ELSE IF \E i \in 1..Len(size_a.v), j \in 1..Len(size_b.v) :
                    Lower(size_a.v[i]) = Lower(size_b.v[j])
             THEN 48 ELSE 0

\* material_score as the code leaves it: 0.5 (24) when a side is empty, else the
\* boolean of the containment test (48 or 0)
MaterialScore(item_1, item_2) ==
    LET material_a == Field(item_1, "material")
        material_b == Field(item_2, "material")
    IN  IF material_a = <<>> \/ material_b = <<>> THEN 24
        ELSE IF (Contains(material_a, material_b) \/ Contains(material_b, material_a))
                /\ Min(Len(material_a), Len(material_b)) > 3
             THEN 48 ELSE 0

\* what material adds: weights["material"] * (1.0 if material_score else 0.0)
MaterialTerm(item_1, item_2) ==
    W_material * (IF MaterialScore(item_1, item_2) # 0 THEN 48 ELSE 0)

ColorScore(item_1, item_2) ==
    LET color_a == Field(item_1, "color")
        color_b == Field(item_2, "color")
    IN  IF color_a = <<>> \/ color_b = <<>> THEN 24
        ELSE IF (Contains(color_a, color_b) \/ Contains(color_b, color_a))
                /\ Min(Len(color_a), Len(color_b)) > 2
             THEN 48 ELSE 0

\* mutant: the gate only rejects a missing designer
DesignerMatch_NoGate(item_1, item_2) ==
    Field(item_1, "designer") # <<>> /\ Field(item_2, "designer") # <<>>

\* the brand gate: TRUE when the call goes on to score the other attributes
DesignerMatch(item_1, item_2) ==
    LET designer_a == Field(item_1, "designer")
        designer_b == Field(item_2, "designer")
    IN  /\ designer_a # <<>>
        /\ designer_b # <<>>
        /\ \/ designer_a = designer_b
           \/ Strip(designer_a) = Strip(designer_b)

calculate_similarity_score(item_1, item_2) ==
    IF ~DesignerMatch(item_1, item_2) THEN 0
    ELSE W_designer * 48
         + W_model * ModelScore(item_1, item_2)
         + W_size * SizeScore(item_1, item_2)
         + MaterialTerm(item_1, item_2)
         + W_color * ColorScore(item_1, item_2)

---------------------------------------------------------------------------
(* Strings the models draw their inputs from                               *)

s_Gu == <<"G", "u">>
s_gu == <<"g", "u">>
s_Gu_sp == <<"G", "u", " ">>
s_Pr == <<"P", "r">>
s_Bag == <<"B", "a", "g">>
s_BagX == <<"B", "a", "g", " ", "X">>
s_sp == <<" ">>
s_M == <<"M">>
s_L == <<"L">>
s_pvc == <<"p", "v", "c">>
s_silk == <<"s", "i", "l", "k">>
s_or == <<"o", "r">>
s_red == <<"r", "e", "d">>

SimDesigners == {PyStr(s_Gu), PyStr(s_gu), PyStr(s_Gu_sp), PyStr(s_Pr)}
SimModels == {PyStr(s_Bag), PyStr(s_BagX), PyStr(s_sp)}
SimSizes == {PyNone, PyStr(<<>>), PyList(<<>>), PyStr(s_M), PyList(<<s_L, s_M>>)}
SimMaterials == {PyNone, PyStr(<<>>), PyStr(s_pvc), PyStr(s_silk)}
SimColors == {PyStr(<<>>), PyStr(s_or), PyStr(s_red)}

SimItems ==
    [designer : SimDesigners, model : SimModels, size : SimSizes,
     material : SimMaterials, color : SimColors]

\* the brand after normalization (lower-casing, trimming)
NormBrand(x) == Strip(Lower(Str(x)))

\* a value that is present and, for a string, not blank
NonBlank(x) == Truthy(x) /\ (x.t = "str" => Strip(x.v[1]) # <<>>)

\* non-empty brand, model, size, material and color
FullySpecified(item) ==
    /\ NonBlank(item.designer) /\ NonBlank(item.model) /\ NonBlank(item.size)
    /\ NonBlank(item.material) /\ NonBlank(item.color)

---------------------------------------------------------------------------
(* utils/pricing_logic.py: estimate_price                                  *)

s_new == <<"n", "e", "w">>
s_excellent == <<"e", "x", "c", "e", "l", "l", "e", "n", "t">>
s_very_good == <<"v", "e", "r", "y", " ", "g", "o", "o", "d">>
s_good == <<"g", "o", "o", "d">>
s_fair == <<"f", "a", "i", "r">>
s_unknown == <<"u", "n", "k", "n", "o", "w", "n">>

DEFAULT_CONDITION_SCORE == 2

\* CONDITION_RATING_TO_SCORE.get(rating, DEFAULT_CONDITION_SCORE)
ConditionScore(rating) ==
    CASE rating = s_new -> 5
      [] rating = s_excellent -> 4
      [] rating = s_very_good -> 3
      [] rating = s_good -> 2
      [] rating = s_fair -> 1
      [] rating = s_unknown -> 2
      [] OTHER -> DEFAULT_CONDITION_SCORE

\* SOURCE_RELIABILITY.get(source, DEFAULT_RELIABILITY), in units of 1/20
Reliability(source) ==
    CASE source = "Fashionphile" -> 19
      [] source = "Vestiaire Collective" -> 15
      [] OTHER -> 12

\* weights are kept in units of 1/WeightScale
WeightScale == 100 * 100

\* reliability * similarity, in units of 1/WeightScale
CombinedWeight(reliability, similarity) ==
    (reliability * similarity * WeightScale) \div (20 * SimScale)

\* float(x) / int(x) succeed on a number; the strings of the model are not numeric
Numeric(x) == x.t = "num"

\* the target's item_details as prepared for the similarity call (lines 270-274)
TargetDetails(target) ==
    LET d0 == Get(target, "item_details", EmptyDict)
        d1 == SetKey(d0, "designer", Get(target, "designer", PyNone))
        d2 == SetKey(d1, "model", Get(target, "model", PyNone))
    IN  SetDefault(SetDefault(SetDefault(d2, "size", PyNone), "material", PyNone),
                   "color", PyNone)

\* details.get("designer", listing.get("designer"))
ListingDesigner(listing) ==
    Get(Get(listing, "item_details", EmptyDict), "designer", Get(listing, "designer", PyNone))

\* the brand test of the loop: listing_designer != target_designer skips the listing
SameDesigner(listing, target) ==
    ListingDesigner(listing) = Get(target, "designer", PyNone)

\* price is not None and condition_score_listing is not None
HasPriceAndCondition(listing) ==
    /\ ~IsNone(Get(listing, "listing_price", PyNone))
    /\ ~IsNone(Get(listing, "condition_rating", PyNone))

\* the listing's item_details after lines 293-295
ListingDetails(listing) ==
    LET d0 == Get(listing, "item_details", EmptyDict)
        d1 == SetKey(d0, "designer", ListingDesigner(listing))
        d2 == SetKey(d1, "model",
                     Get(d0, "model",
                         Get(listing, "model", Get(listing, "listing_name", PyNone))))
    IN  SetDefault(SetDefault(SetDefault(d2, "size", PyNone), "material", PyNone),
                   "color", PyNone)

\* the listing as the loop body leaves it: item_details is updated in place
\* when the listing has one and passes the brand, price and condition tests
ListingAfter(listing, target) ==
    IF SameDesigner(listing, target) /\ HasPriceAndCondition(listing)
       /\ "item_details" \in DOMAIN listing
    THEN [listing EXCEPT !["item_details"] = ListingDetails(listing)]
    ELSE listing

\* similarity of listing i, computed for the listings that reach line 297
ListingSimilarity(listing, target) ==
    calculate_similarity_score(ListingDetails(listing), TargetDetails(target))

\* the listing's similarity is appended to similarity_scores_collected
Considered(listing, target) ==
    SameDesigner(listing, target) /\ HasPriceAndCondition(listing)

\* the listing is appended to comparable_items_data
Retained(listing, target) ==
    /\ Considered(listing, target)
    /\ ListingSimilarity(listing, target) >= MIN_SIMILARITY_THRESHOLD
    /\ Numeric(listing.listing_price)
    /\ Numeric(listing.condition_rating)

\* positions of the listings kept in comparable_items_data, in list order
RECURSIVE ComparableIdx(_, _, _)
ComparableIdx(listings, target, i) ==
    IF i > Len(listings) THEN <<>>
    ELSE (IF Retained(listings[i], target) THEN <<i>> ELSE <<>>)
             \o ComparableIdx(listings, target, i + 1)

RECURSIVE SumSeq(_)
SumSeq(q) == IF q = <<>> THEN 0 ELSE Head(q) + SumSeq(Tail(q))

RECURSIVE MinSeq(_)
MinSeq(q) == IF Len(q) = 1 THEN q[1] ELSE Min(Head(q), MinSeq(Tail(q)))

RECURSIVE MaxSeq(_)
MaxSeq(q) == IF Len(q) = 1 THEN q[1] ELSE Max(Head(q), MaxSeq(Tail(q)))

\* x clamped to [lo, hi]
Clamp(x, lo, hi) == Max(lo, Min(hi, x))

\* floor of the square root
RECURSIVE ISqrtFrom(_, _, _)
ISqrtFrom(x, lo, hi) ==
    IF lo >= hi THEN lo
    ELSE LET mid == (lo + hi + 1) \div 2
         IN  IF mid * mid <= x THEN ISqrtFrom(x, mid, hi) ELSE ISqrtFrom(x, lo, mid - 1)

ISqrt(x) == ISqrtFrom(x, 0, 40000)

\* factors are kept in thousandths
MIN_CONDITION_FACTOR == 700
MAX_CONDITION_FACTOR == 1300
TREND_MIN_FACTOR == 850
TREND_MAX_FACTOR == 1150
DEFAULT_TREND_SCORE == 500
VARIANCE_PENALTY_SCALE == 100
VARIANCE_MAX_CV == 750

\* mutant: the count check is off by one
InsufficientComparables_OffByOne(n) == n < MIN_COMPARABLE_LISTINGS - 1

\* len(comparable_items_data) < MIN_COMPARABLE_LISTINGS
InsufficientComparables(n) == n < MIN_COMPARABLE_LISTINGS

\* mutant: the weighted sum is taken for the average, as if the weights
\* added up to 1
WeightedAverage_Unnormalized(weighted_price_sum, total_combined_weight) ==
    100 * (weighted_price_sum \div WeightScale)

\* weighted_price_sum / total_combined_weight, in hundredths
WeightedAverage(weighted_price_sum, total_combined_weight) ==
    100 * (weighted_price_sum \div total_combined_weight)
    + (100 * (weighted_price_sum % total_combined_weight)) \div total_combined_weight

\* the ratio of lines 340-343 without the clamp of line 344
ConditionFactor_Unclamped(target_condition_score, total_combined_weight, weighted_condition_sum) ==
    IF weighted_condition_sum <= 0 THEN 1000
    ELSE (1000 * target_condition_score * total_combined_weight) \div weighted_condition_sum

\* condition_factor of lines 340-344, in thousandths
ConditionFactor(target_condition_score, total_combined_weight, weighted_condition_sum) ==
    IF weighted_condition_sum <= 0 THEN 1000
    ELSE Clamp((1000 * target_condition_score * total_combined_weight)
                   \div weighted_condition_sum,
               MIN_CONDITION_FACTOR, MAX_CONDITION_FACTOR)

\* trend_factor of lines 346-348, in thousandths
TrendFactor(trend_score) ==
    TREND_MIN_FACTOR + ((trend_score * (TREND_MAX_FACTOR - TREND_MIN_FACTOR)) \div 1000)

\* statistics.variance(prices): sum((x - mean)^2) / (m - 1)
PriceVariance(prices) ==
    LET m == Len(prices)
        total == SumSeq(prices)
    IN  SumSeq([j \in 1..m |-> (m * prices[j] - total) * (m * prices[j] - total)])
            \div (m * m * (m - 1))

\* statistics.stdev(prices) / base_price, in thousandths
CoeffVariation(prices, base_price) ==
    (ISqrt(PriceVariance(prices) * 100) * 10000) \div base_price

\* variance_factor of lines 350-358, in thousandths
VarianceFactor(prices, base_price) ==
    IF Len(prices) >= 2 /\ base_price > 0
    THEN 1000 - ((Min(CoeffVariation(prices, base_price), VARIANCE_MAX_CV)
                      * VARIANCE_PENALTY_SCALE) \div 1000)
    ELSE 1000

\* the result dict of lines 360-387; contributing holds the positions in
\* all_listings whose prices entered the base price
EstimateResult(listings, idx, used, exact_match_count, target_condition_score, base_price, condition_factor, trend_factor, variance_factor) ==
    [status |-> "ok",
     listings_scanned |-> Len(listings),
     estimated_price |->
         ((((((base_price * condition_factor) \div 1000) * trend_factor) \div 1000)
             * variance_factor) \div 1000),
     base_price_weighted_avg |-> base_price,
     comparable_listings_used |-> Len(idx),
     exact_match_count |-> exact_match_count,
     target_condition_score |-> target_condition_score,
     condition_factor |-> condition_factor,
     trend_factor |-> trend_factor,
     variance_factor |-> variance_factor,
     contributing |-> {idx[used[j]] : j \in 1..Len(used)}]

\* lines 337-358 from the three weighted sums on
EstimateFromSums(listings, idx, used, exact_match_count, target_condition_score, trend_score, prices_for_variance, total_combined_weight, weighted_price_sum, weighted_condition_sum) ==
    IF total_combined_weight = 0
    THEN [status |-> "error",
          error |-> "Total combined weight is zero.",
          listings_scanned |-> Len(listings)]
    ELSE EstimateResult(listings, idx, used, exact_match_count, target_condition_score,
             WeightedAverage(weighted_price_sum, total_combined_weight),
             ConditionFactor(target_condition_score, total_combined_weight,
                             weighted_condition_sum),
             TrendFactor(trend_score),
             VarianceFactor(prices_for_variance,
                            WeightedAverage(weighted_price_sum, total_combined_weight)))

\* the loop of lines 326-335 over comparable_items_data: used holds the
\* positions whose combined weight is positive
EstimateFromUsed(listings, idx, sims, price, cond, weight, used, target_condition_score, trend_score) ==
    EstimateFromSums(listings, idx, used,
        Len(SelectSeq(sims, LAMBDA x : x >= EXACT_MATCH_SIMILARITY_SCORE)),
        target_condition_score, trend_score,
        [j \in 1..Len(used) |-> price[used[j]]],
        SumSeq([j \in 1..Len(used) |-> weight[used[j]]]),
        SumSeq([j \in 1..Len(used) |-> price[used[j]] * weight[used[j]]]),
        SumSeq([j \in 1..Len(used) |-> cond[used[j]] * weight[used[j]]]))

\* comparable_items_data as the loop of lines 278-311 leaves it: idx holds the
\* positions of the retained listings and sims their similarities
EstimateFromComparables(target, listings, idx, sims, weight, trend_score) ==
    EstimateFromUsed(listings, idx, sims,
        [k \in 1..Len(idx) |-> listings[idx[k]].listing_price.n],
        [k \in 1..Len(idx) |-> listings[idx[k]].condition_rating.n],
        weight,
        SelectSeq([k \in 1..Len(idx) |-> k], LAMBDA k : weight[k] > 0),
        ConditionScore(Strip(Lower(Str(Get(target, "condition_rating",
                                           PyStr(s_unknown)))))),
        trend_score)

\* lines 313-322 and on: too few comparables is an error
EstimateFromRetained(target, listings, idx, sims, trend_score) ==
    IF InsufficientComparables(Len(idx))
    THEN [status |-> "error",
          error |-> "Insufficient comparable listings found",
          listings_scanned |-> Len(listings),
          comparable_found |-> Len(idx),
          listings_considered |->
              Cardinality({i \in 1..Len(listings) : Considered(listings[i], target)})]
    ELSE EstimateFromComparables(target, listings, idx, sims,
             [k \in 1..Len(idx) |->
                 CombinedWeight(Reliability(Get(listings[idx[k]], "source_platform", "")),
                                sims[k])],
             trend_score)

\* the scan of all_listings (lines 278-311)
EstimateFromScan(target, listings, idx, trend_score) ==
    EstimateFromRetained(target, listings, idx,
        [k \in 1..Len(idx) |-> ListingSimilarity(listings[idx[k]], target)],
        trend_score)

\* the result of estimate_price(target, listings, trend_data) where get_trend_score
\* answers trend_score (in thousandths). Prices are whole numbers; base and
\* estimated price are in hundredths.
estimate_price(target, listings, trend_score) ==
    IF ~Truthy(Get(target, "designer", PyNone)) \/ ~Truthy(Get(target, "model", PyNone))
    THEN [status |-> "error",
          error |-> "Target item details missing designer or model.",
          listings_scanned |-> 0]
    ELSE EstimateFromScan(target, listings, ComparableIdx(listings, target, 1), trend_score)

\* the inputs after the call: the target's and the listings' item_details
\* are updated in place once validation has passed
TargetAfter(target) ==
    IF Truthy(Get(target, "designer", PyNone)) /\ Truthy(Get(target, "model", PyNone))
       /\ "item_details" \in DOMAIN target
    THEN [target EXCEPT !["item_details"] = TargetDetails(target)]
    ELSE target

ListingsAfter(target, listings) ==
    IF Truthy(Get(target, "designer", PyNone)) /\ Truthy(Get(target, "model", PyNone))
    THEN [i \in 1..Len(listings) |-> ListingAfter(listings[i], target)]
    ELSE listings

---------------------------------------------------------------------------
(* Retrieval and rerank scores                                             *)

\* retrieval and rerank scores are counted in units of 1/ScoreScale
ScoreScale == 100 * 800

\* item.get("score", 0)
ScoreOf(item) == Get(item, "score", 0)

\* list.sort(key=score, reverse=True): stable, equal scores keep their order
RECURSIVE InsertByScore(_, _)
InsertByScore(x, sorted) ==
    IF sorted = <<>> THEN <<x>>
    ELSE IF ScoreOf(Head(sorted)) >= ScoreOf(x)
         THEN <<Head(sorted)>> \o InsertByScore(x, Tail(sorted))
         ELSE <<x>> \o sorted

RECURSIVE SortByScoreFrom(_, _, _)
SortByScoreFrom(list, i, sorted) ==
    IF i > Len(list) THEN sorted
    ELSE SortByScoreFrom(list, i + 1, InsertByScore(list[i], sorted))

SortByScore(list) == SortByScoreFrom(list, 1, <<>>)

\* list[:k] for k >= 0
Take(list, k) == SubSeq(list, 1, Min(k, Len(list)))

\* no top_k given
NoTopK == 0 - 1

\* list[:top_k] when top_k is not None
Limit(list, top_k) == IF top_k = NoTopK THEN list ELSE Take(list, top_k)

\* the embedder answered None
NoEmbedding == 0 - 99

---------------------------------------------------------------------------
(* services/rag/reranker.py                                                *)

\* a str attribute the rerankers read: present and truthy
HasText(item, key) == key \in DOMAIN item /\ Truthy(item[key])

\* calling .lower() on the attribute raises AttributeError unless it is a str
IsStr(x) == x.t = "str"

\* item["metadata"][key] = value, creating the metadata dict when absent
SetMeta(item, key, value) ==
    SetKey(item, "metadata", SetKey(Get(item, "metadata", EmptyDict), key, value))

\* KeywordMatchReranker's defaults: 0.2, 0.15 and 0.1
brand_boost == (20 * ScoreScale) \div 100
model_boost == (15 * ScoreScale) \div 100
material_boost == (10 * ScoreScale) \div 100

\* the boost KeywordMatchReranker computes for one item (lines 91-118)
KeywordBoost(query, item) ==
    LET q == Lower(query)
        query_words == ToSet(Split(q))
        brand == Lower(Str(item.brand))
        model == Lower(Str(item.model))
        model_words == Split(model)
        matched_words == SelectSeq(model_words, LAMBDA w : w \in query_words)
        b1 == IF HasText(item, "brand") /\ Contains(brand, q)
              THEN brand_boost + (IF brand \in query_words THEN brand_boost \div 2 ELSE 0)
              ELSE 0
        b2 == IF HasText(item, "model") /\ Contains(model, q)
              THEN model_boost
                   + (IF matched_words # <<>>
                      THEN (model_boost * Len(matched_words)) \div Len(model_words)
                      ELSE 0)
              ELSE 0
        b3 == IF HasText(item, "materials")
                 /\ \E i \in 1..Len(item.materials.v) : Contains(Lower(item.materials.v[i]), q)
              THEN material_boost ELSE 0
    IN  b1 + b2 + b3

\* the loop of lines 90-125 raises on this item: a truthy brand or model
\* that is not a str has no lower()
KeywordRaises(item) ==
    \/ HasText(item, "brand") /\ ~IsStr(item.brand)
    \/ HasText(item, "model") /\ ~IsStr(item.model)

\* lines 120-125: the boost is added to the score and noted in the metadata
WithKeywordBoost(item, boost) ==
    SetMeta(SetKey(item, "score", ScoreOf(item) + boost), "keyword_boost", boost)

\* the copy of one item as the loop leaves it
KeywordItem(query, item) == WithKeywordBoost(item, KeywordBoost(query, item))

\* KeywordMatchReranker.rerank: [raised, results]
KeywordRerank(query, results, top_k) ==
    IF results = <<>> THEN [raised |-> FALSE, results |-> <<>>]
    ELSE IF \E i \in 1..Len(results) : KeywordRaises(results[i])
    THEN [raised |-> TRUE, results |-> <<>>]
    ELSE [raised |-> FALSE,
          results |-> Limit(SortByScore([i \in 1..Len(results) |->
                                            KeywordItem(query, results[i])]), top_k)]

\* the text SemanticReranker embeds for an item is empty (lines 189-198)
NoItemText(item) ==
    ~HasText(item, "brand") /\ ~HasText(item, "model") /\ ~HasText(item, "description")

\* cosine similarity of two one-dimensional embeddings, times 0.5
SemanticScore(query_embedding, item_embedding) ==
    IF query_embedding = 0 \/ item_embedding = 0 THEN 0
    ELSE IF (query_embedding > 0) = (item_embedding > 0)
         THEN ScoreScale \div 2
         ELSE 0 - (ScoreScale \div 2)

\* the embedding the provider gives for an item's text; None when it is down
ItemEmbedding(item, provider_up) ==
    IF provider_up THEN Get(item, "vec", 0) ELSE NoEmbedding

\* lines 208-215: the semantic score is added and noted in the metadata
WithSemanticScore(item, semantic_score) ==
    SetMeta(SetKey(item, "score", ScoreOf(item) + semantic_score),
            "semantic_score", semantic_score)

\* the copy of one item as the loop of lines 187-215 leaves it
SemanticItem(query_embedding, item, provider_up) ==
    IF NoItemText(item) \/ ItemEmbedding(item, provider_up) = NoEmbedding THEN item
    ELSE WithSemanticScore(item,
             SemanticScore(query_embedding, ItemEmbedding(item, provider_up)))

\* SemanticReranker.rerank: it catches its own exceptions and never raises.
\* query_embedding is what the embedder answers for the query.
SemanticRerank(query_embedding, results, top_k, provider_up) ==
    IF results = <<>> THEN [raised |-> FALSE, results |-> <<>>]
    ELSE IF query_embedding = NoEmbedding
    THEN [raised |-> FALSE, results |-> results]
    ELSE [raised |-> FALSE,
          results |-> Limit(SortByScore([i \in 1..Len(results) |->
                                SemanticItem(query_embedding, results[i], provider_up)]),
                            top_k)]

\* mutant: a strategy that raises hands back the results it was given
ApplyReranker_Leaky(kind, query, query_embedding, results, provider_up) ==
    CASE kind = "keyword" ->
             IF KeywordRerank(query, results, NoTopK).raised
             THEN [raised |-> FALSE, results |-> results]
             ELSE KeywordRerank(query, results, NoTopK)
      [] kind = "semantic" -> SemanticRerank(query_embedding, results, NoTopK, provider_up)
      [] OTHER -> [raised |-> FALSE, results |-> results]

\* one strategy of an ensemble applied to the results: "keyword", "semantic",
\* or "base", the Reranker base class whose rerank raises NotImplementedError
ApplyReranker(kind, query, query_embedding, results, provider_up) ==
    CASE kind = "keyword" -> KeywordRerank(query, results, NoTopK)
      [] kind = "semantic" -> SemanticRerank(query_embedding, results, NoTopK, provider_up)
      [] OTHER -> [raised |-> TRUE, results |-> <<>>]

\* result_map: the last result carrying each id (lines 323-326)
ResultFor(reranker_results, id) ==
    LET hits == {i \in 1..Len(reranker_results) :
                    "id" \in DOMAIN reranker_results[i] /\ reranker_results[i].id = id}
    IN  IF hits = {} THEN EmptyDict
        ELSE reranker_results[CHOOSE i \in hits : \A j \in hits : j <= i]

\* lines 329-334 for one item: add the strategy's score times its weight
CombineItem(item, reranker_results, w) ==
    IF "id" \notin DOMAIN item THEN item
    ELSE LET r == ResultFor(reranker_results, item.id)
         IN  IF r # EmptyDict /\ "score" \in DOMAIN r
             THEN SetKey(item, "score", item.score + (r.score * w.num) \div w.den)
             ELSE item

\* item.copy() is shallow: the metadata dict of a strategy's copy is the one
\* of the ensemble's item, so what the strategy wrote there before returning
\* or raising shows in the ensemble's item
SharedMeta(kind, query, query_embedding, results, j, provider_up) ==
    LET item == results[j]
    IN  CASE kind = "keyword" ->
                 IF \A i \in 1..j : ~KeywordRaises(results[i])
                 THEN SetMeta(item, "keyword_boost", KeywordBoost(query, item))
                 ELSE item
          [] kind = "semantic" ->
                 IF query_embedding = NoEmbedding THEN item
                 ELSE SetKey(item, "metadata",
                             SemanticItem(query_embedding, item, provider_up).metadata)
          [] OTHER -> item

\* lines 320-334: the scores of a strategy that returned are combined;
\* a strategy that raised leaves the scores as they are
CombineRun(shared, run, w) ==
    IF run.raised THEN shared
    ELSE [j \in 1..Len(shared) |-> CombineItem(shared[j], run.results, w)]

\* one pass of the loop of lines 317-336
EnsembleStep(kind, w, query, query_embedding, ensemble_results, provider_up) ==
    CombineRun([j \in 1..Len(ensemble_results) |->
                   SharedMeta(kind, query, query_embedding, ensemble_results, j,
                              provider_up)],
               ApplyReranker(kind, query, query_embedding, ensemble_results, provider_up),
               w)

\* the loop of lines 317-336 from strategy i on
RECURSIVE EnsembleLoop(_, _, _, _, _, _, _)
EnsembleLoop(rerankers, weights, i, query, query_embedding, ensemble_results, provider_up) ==
    IF i > Len(rerankers) THEN ensemble_results
    ELSE EnsembleLoop(rerankers, weights, i + 1, query, query_embedding,
                      EnsembleStep(rerankers[i], weights[i], query, query_embedding,
                                   ensemble_results, provider_up),
                      provider_up)

\* lines 307-314: copies with the original score recorded and the score reset
EnsembleStart(results) ==
    [j \in 1..Len(results) |->
        SetKey(SetMeta(results[j], "original_score", ScoreOf(results[j])), "score", 0)]

\* lines 339-341: 20% of the original score is added back
RestoreOriginal(item) ==
    SetKey(item, "score", item.score + (item.metadata.original_score * 2) \div 10)

\* lines 338-348: the original score is restored in part, then sort and cut
EnsembleFinish(scored, top_k) ==
    Limit(SortByScore([j \in 1..Len(scored) |-> RestoreOriginal(scored[j])]), top_k)

\* EnsembleReranker.rerank
EnsembleRerank(rerankers, weights, query, query_embedding, results, top_k, provider_up) ==
    IF results = <<>> THEN <<>>
    ELSE EnsembleFinish(EnsembleLoop(rerankers, weights, 1, query, query_embedding,
                                     EnsembleStart(results), provider_up),
                        top_k)

\* EnsembleReranker.__init__ without weights: 1 / len(rerankers) each
EqualWeights(n) == [i \in 1..n |-> [num |-> 1, den |-> n]]

\* EnsembleReranker.__init__ with weights: each divided by their sum
NormalizedWeights(weights) ==
    [i \in 1..Len(weights) |-> [num |-> weights[i], den |-> SumSeq(weights)]]

\* get_reranker("ensemble"): keyword and semantic, weights 1/2 each
DefaultRerankers == <<"keyword", "semantic">>
DefaultWeights == EqualWeights(Len(DefaultRerankers))

---------------------------------------------------------------------------
(* services/rag/vector_store.py                                            *)
(* Embeddings are one-dimensional integers.  The embedding the provider    *)
(* gives for a stored item's text is kept with the item under "vec"; the   *)
(* embedding it gives for a query is an input of the operation that        *)
(* searches, NoEmbedding when the provider answers None.                   *)

\* VectorStore._get_embedding for an item's text
get_embedding(item) == Get(item, "vec", NoEmbedding)

\* squared L2 distance of the FAISS flat index
Distance(query_embedding, v) == (query_embedding - v) * (query_embedding - v)

\* index.search: positions of the index ordered by distance, nearest first
RECURSIVE InsertByDistance(_, _, _, _)
InsertByDistance(pos, sorted, store_index, query_embedding) ==
    IF sorted = <<>> THEN <<pos>>
    ELSE IF Distance(query_embedding, store_index[Head(sorted)])
               <= Distance(query_embedding, store_index[pos])
         THEN <<Head(sorted)>> \o InsertByDistance(pos, Tail(sorted), store_index, query_embedding)
         ELSE <<pos>> \o sorted

RECURSIVE NearestFrom(_, _, _, _)
NearestFrom(store_index, query_embedding, i, sorted) ==
    IF i > Len(store_index) THEN sorted
    ELSE NearestFrom(store_index, query_embedding, i + 1,
                     InsertByDistance(i, sorted, store_index, query_embedding))

\* similarity_score = 1 / (1 + distance)
SimilarityScore(distance) == ScoreScale \div (1 + distance)

\* the number of searches of the index a call of VectorStore.search makes:
\* none when the guards of lines 253-259 return first
SearchRuns(store_index, query) == IF store_index = <<>> \/ query = <<>> THEN 0 ELSE 1

\* lines 286-294: the results built from the positions the index returned
VectorResults(store_items, store_index, query_embedding, indices) ==
    [i \in 1..Len(indices) |->
        SetKey(store_items[indices[i]], "score",
               SimilarityScore(Distance(query_embedding, store_index[indices[i]])))]

\* VectorStore.search(query, k) on the store <<items, index>>
VectorSearch(store_items, store_index, query, k, query_embedding) ==
    IF store_index = <<>> \/ query = <<>> \/ query_embedding = NoEmbedding THEN <<>>
    ELSE VectorResults(store_items, store_index, query_embedding,
             SelectSeq(Take(NearestFrom(store_index, query_embedding, 1, <<>>),
                            Min(k, Len(store_items))),
                       LAMBDA idx : idx <= Len(store_items)))

---------------------------------------------------------------------------
(* services/rag/query.py: LuxuryItemsRetriever                             *)

\* position of the entry of combined that carries the id, 0 when none does
PosOfId(combined, id) ==
    IF \E i \in 1..Len(combined) : combined[i].id = id
    THEN CHOOSE i \in 1..Len(combined) : combined[i].id = id
    ELSE 0

\* lines 183-191: one vector result enters the combined dict
MergeVectorItem(combined, item) ==
    IF "id" \notin DOMAIN item THEN combined
    ELSE IF PosOfId(combined, item.id) = 0 THEN Append(combined, item)
    ELSE IF ScoreOf(item) > ScoreOf(combined[PosOfId(combined, item.id)])
         THEN [combined EXCEPT ![PosOfId(combined, item.id)] = item]
         ELSE combined

\* the score of an item both searches found is multiplied by 1.2
BoostBoth(score) == (score * 12) \div 10

\* lines 194-201: one BM25 result enters the combined dict
MergeBM25Item(combined, item) ==
    IF "id" \notin DOMAIN item THEN combined
    ELSE IF PosOfId(combined, item.id) = 0 THEN Append(combined, item)
    ELSE [combined EXCEPT ![PosOfId(combined, item.id)] =
              SetKey(@, "score", BoostBoth(ScoreOf(@)))]

RECURSIVE MergeVector(_, _)
MergeVector(combined, vector_results) ==
    IF vector_results = <<>> THEN combined
    ELSE MergeVector(MergeVectorItem(combined, Head(vector_results)), Tail(vector_results))

RECURSIVE MergeBM25(_, _)
MergeBM25(combined, bm25_results) ==
    IF bm25_results = <<>> THEN combined
    ELSE MergeBM25(MergeBM25Item(combined, Head(bm25_results)), Tail(bm25_results))

\* LuxuryItemsRetriever._merge_search_results
_merge_search_results(vector_results, bm25_results, top_k) ==
    Take(SortByScore(MergeBM25(MergeVector(<<>>, vector_results), bm25_results)), top_k)

\* the default score given to every BM25 result: 0.5
BM25Score == ScoreScale \div 2

\* What the BM25 retriever (langchain, outside the repository) does in a
\* call: building it raises, querying it raises, or it ranks the documents
\* in store order or in reverse store order and returns the first k.
BM25Outcomes == {"from_texts_raises", "query_raises", "asc", "desc"}

BM25Ranking(n, outcome) ==
    IF outcome = "asc" THEN [i \in 1..n |-> i] ELSE [i \in 1..n |-> n + 1 - i]

\* lines 158-168: the BM25 documents as items with the default score
BM25Results(store_items, top_k, bm25) ==
    [i \in 1..Min(top_k, Len(store_items)) |->
        SetKey(store_items[BM25Ranking(Len(store_items), bm25)[i]], "score", BM25Score)]

\* line 171: the two result lists are merged
HybridFused(vector_search_results, bm25_results, top_k, searches) ==
    [raised |-> FALSE,
     results |-> _merge_search_results(vector_search_results, bm25_results, top_k),
     vector_results |-> vector_search_results,
     bm25_results |-> bm25_results, vector_searches |-> searches]

\* lines 155-171, once the vector search has answered
HybridAfterVector(store_items, top_k, bm25, vector_search_results, searches) ==
    IF bm25 = "query_raises"
    THEN [raised |-> TRUE, results |-> <<>>, vector_results |-> vector_search_results,
          bm25_results |-> <<>>, vector_searches |-> searches]
    ELSE HybridFused(vector_search_results, BM25Results(store_items, top_k, bm25), top_k,
                     searches)

\* LuxuryItemsRetriever._hybrid_search(query, top_k):
\* [raised, results, vector_results, bm25_results, vector_searches]
_hybrid_search(store_items, store_index, query, top_k, query_embedding, bm25) ==
    IF store_items = <<>>
    THEN [raised |-> FALSE, results |-> <<>>, vector_results |-> <<>>,
          bm25_results |-> <<>>, vector_searches |-> 0]
    ELSE IF bm25 = "from_texts_raises"
    THEN [raised |-> TRUE, results |-> <<>>, vector_results |-> <<>>,
          bm25_results |-> <<>>, vector_searches |-> 0]
    ELSE HybridAfterVector(store_items, top_k, bm25,
             VectorSearch(store_items, store_index, query, top_k, query_embedding),
             SearchRuns(store_index, query))

\* item.get(key, "").lower() raises when the value is not a str
FilterRaises(item, key) == key \in DOMAIN item /\ ~IsStr(item[key])

\* item.get(key, "").lower() == wanted.lower()
FieldEquals(item, key, wanted) ==
    Lower(Str(Get(item, key, PyStr(<<>>)))) = Lower(Str(wanted))

\* the price test of lines 239-243
PriceInRange(item, price_range) ==
    /\ "price" \in DOMAIN item
    /\ Numeric(item.price)
    /\ price_range.min <= item.price.n
    /\ item.price.n <= price_range.max

\* no price range given
NoRange == [min |-> 0, max |-> 0 - 1]

BrandFilter_Off(item, brand_filter) == TRUE

\* the brand comprehension of line 230
BrandFilter(item, brand_filter) == FieldEquals(item, "brand", brand_filter)

\* lines 237-244: the price range filter
FilterByPrice(filtered, price_range) ==
    IF price_range # NoRange
    THEN [raised |-> FALSE,
          results |-> SelectSeq(filtered, LAMBDA item : PriceInRange(item, price_range))]
    ELSE [raised |-> FALSE, results |-> filtered]

\* lines 232-235: the category filter
FilterByCategory(filtered, category_filter, price_range) ==
    IF ~Truthy(category_filter) THEN FilterByPrice(filtered, price_range)
    ELSE IF \E i \in 1..Len(filtered) : FilterRaises(filtered[i], "category")
    THEN [raised |-> TRUE, results |-> <<>>]
    ELSE FilterByPrice(SelectSeq(filtered,
                           LAMBDA item : FieldEquals(item, "category", category_filter)),
                       price_range)

\* LuxuryItemsRetriever._apply_filters: [raised, results]
_apply_filters(results, brand_filter, category_filter, price_range) ==
    IF ~Truthy(brand_filter) THEN FilterByCategory(results, category_filter, price_range)
    ELSE IF \E i \in 1..Len(results) : FilterRaises(results[i], "brand")
    THEN [raised |-> TRUE, results |-> <<>>]
    ELSE FilterByCategory(SelectSeq(results,
                              LAMBDA item : BrandFilter(item, brand_filter)),
                          category_filter, price_range)

\* the number of candidates search asks of the retrieval: min(top_k * 3, 20)
CandidateCount(top_k) == Min(top_k * 3, 20)

\* lines 92-96: a hybrid search that raised is replaced by a vector search
RetrieveAfterHybrid(store_items, store_index, query, k, query_embedding, hybrid) ==
    IF hybrid.raised
    THEN [results |-> VectorSearch(store_items, store_index, query, k, query_embedding),
          hybrid_raised |-> TRUE,
          vector_searches |-> hybrid.vector_searches + SearchRuns(store_index, query)]
    ELSE [results |-> hybrid.results, hybrid_raised |-> FALSE,
          vector_searches |-> hybrid.vector_searches]

\* lines 91-98: the retrieval search runs: [results, hybrid_raised, vector_searches]
Retrieve(store_items, store_index, query, k, use_hybrid_search, query_embedding, bm25) ==
    IF use_hybrid_search
    THEN RetrieveAfterHybrid(store_items, store_index, query, k, query_embedding,
             _hybrid_search(store_items, store_index, query, k, query_embedding, bm25))
    ELSE [results |-> VectorSearch(store_items, store_index, query, k, query_embedding),
          hybrid_raised |-> FALSE, vector_searches |-> SearchRuns(store_index, query)]

\* lines 113-131: rerank when asked, then cut to top_k
SearchAfterFilters(query, top_k, use_reranker, query_embedding, retrieved, filtered) ==
    IF filtered.raised
    THEN [raised |-> TRUE, results |-> <<>>, candidates |-> retrieved.results,
          hybrid_raised |-> retrieved.hybrid_raised,
          vector_searches |-> retrieved.vector_searches]
    ELSE [raised |-> FALSE,
          results |->
              Take(IF use_reranker /\ filtered.results # <<>>
                   THEN EnsembleRerank(DefaultRerankers, DefaultWeights, query,
                                       query_embedding, filtered.results, NoTopK,
                                       query_embedding # NoEmbedding)
                   ELSE filtered.results,
                   top_k),
          candidates |-> retrieved.results,
          hybrid_raised |-> retrieved.hybrid_raised,
          vector_searches |-> retrieved.vector_searches]

\* lines 100-131, once the retrieval has answered
SearchAfterRetrieval(query, top_k, brand_filter, category_filter, price_range, use_reranker, query_embedding, retrieved) ==
    IF retrieved.results = <<>>
    THEN [raised |-> FALSE, results |-> <<>>, candidates |-> <<>>,
          hybrid_raised |-> retrieved.hybrid_raised,
          vector_searches |-> retrieved.vector_searches]
    ELSE SearchAfterFilters(query, top_k, use_reranker, query_embedding, retrieved,
             _apply_filters(retrieved.results, brand_filter, category_filter, price_range))

\* LuxuryItemsRetriever.search:
\* [raised, results, candidates, hybrid_raised, vector_searches]
search(store_items, store_index, query, top_k, brand_filter, category_filter, price_range, use_hybrid_search, use_reranker, query_embedding, bm25) ==
    SearchAfterRetrieval(query, top_k, brand_filter, category_filter, price_range,
        use_reranker, query_embedding,
        Retrieve(store_items, store_index, query, CandidateCount(top_k),
                 use_hybrid_search, query_embedding, bm25))

\* " ".join(parts)
RECURSIVE Join(_)
Join(parts) ==
    IF parts = <<>> THEN <<>>
    ELSE IF Len(parts) = 1 THEN Head(parts)
    ELSE Head(parts) \o <<" ">> \o Join(Tail(parts))

\* the parameter names of _hybrid_search and of _vector_search (lines 133, 137)
SearchParams == {"query", "top_k"}

\* a call raises TypeError when it passes a keyword the function does not have
BindRaises(params, keywords) == ~(keywords \subseteq params)

\* the keyword get_similar_items passes next to the query (lines 407, 410)
SimilarItemsKeywords == {"k"}

\* the first stored item whose str(id) is item_id; EmptyDict when there is none
FindItem(store_items, item_id) ==
    LET hits == {i \in 1..Len(store_items) : Get(store_items[i], "id", "") = item_id}
    IN  IF hits = {} THEN EmptyDict
        ELSE store_items[CHOOSE i \in hits : \A j \in hits : i <= j]

\* the query parts of lines 387-393
SimilarQueryParts(target_item) ==
    (IF "brand" \in DOMAIN target_item THEN <<target_item.brand>> ELSE <<>>)
    \o (IF "model" \in DOMAIN target_item THEN <<target_item.model>> ELSE <<>>)
    \o (IF "category" \in DOMAIN target_item THEN <<target_item.category>> ELSE <<>>)

\* the query of lines 385-398: the joined parts, else the description
SimilarQuery(target_item, parts) ==
    IF Join([i \in 1..Len(parts) |-> parts[i].v[1]]) # <<>>
    THEN Join([i \in 1..Len(parts) |-> parts[i].v[1]])
    ELSE Str(Get(target_item, "description", PyStr(<<>>)))

\* lines 413-425: the original item is removed, then rerank or cut
SimilarAfterRetrieval(item_id, top_k, use_reranker, query, query_embedding, filtered_results) ==
    IF use_reranker /\ filtered_results # <<>>
    THEN [raised |-> FALSE, hybrid_raised |-> TRUE,
          results |-> EnsembleRerank(DefaultRerankers, DefaultWeights, query,
                                     query_embedding, filtered_results, top_k,
                                     query_embedding # NoEmbedding)]
    ELSE [raised |-> FALSE, hybrid_raised |-> TRUE,
          results |-> Take(filtered_results, top_k)]

\* lines 405-411: both searches are called with the keyword k
SimilarSearch(store_items, store_index, item_id, top_k, use_reranker, query, query_embedding, bm25) ==
    IF BindRaises(SearchParams, SimilarItemsKeywords)
    THEN \* the call of _hybrid_search raises TypeError, and so does the call of
         \* _vector_search in the handler
         [raised |-> TRUE, hybrid_raised |-> TRUE, results |-> <<>>]
    ELSE SimilarAfterRetrieval(item_id, top_k, use_reranker, query, query_embedding,
             SelectSeq(Retrieve(store_items, store_index, query, top_k + 5, TRUE,
                                query_embedding, bm25).results,
                       LAMBDA item : Get(item, "id", "") # item_id))

\* lines 385-411, once the target item is found
SimilarForTarget(store_items, store_index, item_id, top_k, use_reranker, query_embedding, bm25, target_item, parts) ==
    IF \E i \in 1..Len(parts) : ~IsStr(parts[i])
    THEN [raised |-> TRUE, hybrid_raised |-> FALSE, results |-> <<>>]
    ELSE IF SimilarQuery(target_item, parts) = <<>>
    THEN [raised |-> FALSE, hybrid_raised |-> FALSE, results |-> <<>>]
    ELSE SimilarSearch(store_items, store_index, item_id, top_k, use_reranker,
                       SimilarQuery(target_item, parts), query_embedding, bm25)

\* LuxuryItemsRetriever.get_similar_items(item_id, top_k, use_reranker):
\* [raised, hybrid_raised, results]
get_similar_items(store_items, store_index, item_id, top_k, use_reranker, query_embedding, bm25) ==
    IF FindItem(store_items, item_id) = EmptyDict
    THEN [raised |-> FALSE, hybrid_raised |-> FALSE, results |-> <<>>]
    ELSE SimilarForTarget(store_items, store_index, item_id, top_k, use_reranker,
                          query_embedding, bm25, FindItem(store_items, item_id),
                          SimilarQueryParts(FindItem(store_items, item_id)))

---------------------------------------------------------------------------
(* services/rag/rag_pricing.py: RAGPricingEngine                           *)

\* a or b
Or(a, b) == IF Truthy(a) THEN a ELSE b

\* json.dumps(item_info): never empty; only that is used
json_dumps(item_info) ==
    IF DOMAIN item_info = {} THEN <<"{", "}">> ELSE <<"{", ".", "}">>

\* the candidate query parts of lines 289-307, in order
EngineQueryParts(item_info) ==
    SelectSeq(<<Or(Get(item_info, "brand", PyStr(<<>>)), Get(item_info, "designer", PyStr(<<>>))),
                Or(Get(item_info, "model", PyStr(<<>>)), Get(item_info, "style", PyStr(<<>>))),
                Get(item_info, "material", PyStr(<<>>)),
                Get(item_info, "color", PyStr(<<>>)),
                Get(item_info, "size", PyStr(<<>>))>>,
              Truthy)

\* the price read from one result (lines 342-345): listing_price, else price
ResultPrice(item) ==
    IF IsNone(Get(item, "listing_price", PyNone)) THEN Get(item, "price", PyNone)
    ELSE item.listing_price

\* the price enters prices: it is a number; the strings of the model do not
\* parse as a float and are skipped
PriceEnters(item) == Numeric(ResultPrice(item))

\* float(price) raises TypeError for a list
PriceRaises(item) == ResultPrice(item).t = "list"

\* sorted(prices)
RECURSIVE InsertSorted(_, _)
InsertSorted(x, sorted) ==
    IF sorted = <<>> THEN <<x>>
    ELSE IF Head(sorted) <= x THEN <<Head(sorted)>> \o InsertSorted(x, Tail(sorted))
    ELSE <<x>> \o sorted

RECURSIVE Sorted(_)
Sorted(q) == IF q = <<>> THEN <<>> ELSE InsertSorted(Head(q), Sorted(Tail(q)))

\* statistics.median(prices), in halves
Median2(prices) ==
    LET sp == Sorted(prices)
        n == Len(sp)
    IN  IF n % 2 = 1 THEN 2 * sp[(n + 1) \div 2]
        ELSE sp[n \div 2] + sp[n \div 2 + 1]

\* no condition_rating / no trend_score given
NotGiven == 0 - 1

\* 0.7 + condition_rating / 20, in twentieths
EngineConditionFactor(condition_rating) ==
    IF condition_rating = NotGiven THEN 20 ELSE 14 + condition_rating

\* 0.85 + trend_score * 0.3, in hundredths; trend_score is in thousandths
EngineTrendFactor(trend_score) ==
    IF trend_score = NotGiven THEN 100 ELSE 85 + (trend_score * 30) \div 1000

\* the labels with the thresholds of "high" and "medium" exchanged
EngineConfidence_Swapped(count) ==
    IF count >= 5 THEN "medium" ELSE IF count >= 2 THEN "high" ELSE "low"

\* the confidence label of lines 425-431
EngineConfidence(count) ==
    IF count >= 5 THEN "high" ELSE IF count >= 2 THEN "medium" ELSE "low"

\* the error result of lines 275-283, 327-335, 361-369 and 459-467
EngineError(message, searches) ==
    [estimated_price |-> 0, confidence |-> "none", error |-> message,
     price_range |-> [min |-> 0, max |-> 0], vector_searches |-> searches,
     contributing |-> <<>>]

\* lines 371-456: the result built from the prices; adjusted_price is in
\* units of 1/4000 (halves of the median, twentieths and hundredths of the
\* two factors)
EngineResult(contributing, prices, adjusted_price, base_price2, searches) ==
    [estimated_price |-> adjusted_price \div 4000,
     base_price |-> base_price2 \div 2,
     confidence |-> EngineConfidence(Len(prices)),
     price_range |-> [min |-> (adjusted_price * 85) \div 400000,
                      max |-> (adjusted_price * 115) \div 400000],
     matched_items_count |-> Len(prices),
     vector_searches |-> searches,
     contributing |-> contributing]

\* lines 356-400: no price is an error, else the median is adjusted
EngineFromPrices(contributing, prices, trend_score, condition_rating, searches) ==
    IF prices = <<>> THEN EngineError("No valid prices found", searches)
    ELSE EngineResult(contributing, prices,
             Median2(prices) * EngineConditionFactor(condition_rating)
                 * EngineTrendFactor(trend_score),
             Median2(prices), searches)

\* lines 339-351: the prices of the results that have one
EngineFromContributing(contributing, trend_score, condition_rating, searches) ==
    EngineFromPrices(contributing,
                     [i \in 1..Len(contributing) |-> ResultPrice(contributing[i]).n],
                     trend_score, condition_rating, searches)

\* lines 326-351, once the vector search has answered
EngineFromResults(results, trend_score, condition_rating, searches) ==
    IF results = <<>> THEN EngineError("No relevant items found", searches)
    ELSE IF \E i \in 1..Len(results) : PriceRaises(results[i])
    THEN EngineError("TypeError", searches)
    ELSE EngineFromContributing(SelectSeq(results, PriceEnters), trend_score,
                                condition_rating, searches)

\* the query of lines 309-312
EngineQuery(item_info, parts) ==
    IF parts # <<>> THEN Join([i \in 1..Len(parts) |-> parts[i].v[1]])
    ELSE json_dumps(item_info)

\* the number of results estimate_price asks of the vector search (line 317)
EngineK == 10

\* lines 287-317: the query is built and the vector search runs
EngineFromParts(store_items, store_index, item_info, parts, trend_score, condition_rating, query_embedding) ==
    IF \E i \in 1..Len(parts) : ~IsStr(parts[i])
    THEN EngineError("TypeError", 0)
    ELSE EngineFromResults(VectorSearch(store_items, store_index,
                                        EngineQuery(item_info, parts), EngineK,
                                        query_embedding),
                           trend_score, condition_rating,
                           SearchRuns(store_index, EngineQuery(item_info, parts)))

\* RAGPricingEngine.estimate_price(item_info, trend_score, condition_rating).
\* Prices are whole currency units.  vector_searches counts the searches of
\* the index and contributing lists the results whose price entered prices.
rag_estimate_price(store_available, store_items, store_index, item_info, trend_score, condition_rating, query_embedding) ==
    IF ~store_available THEN EngineError("Vector store not available", 0)
    ELSE EngineFromParts(store_items, store_index, item_info, EngineQueryParts(item_info),
                         trend_score, condition_rating, query_embedding)

---------------------------------------------------------------------------
(* services/rag_service.py: LuxuryItemRAGService                           *)

s_bag == <<"b", "a", "g">>

\* _extract_categories: of the keyword table of lines 288-296 the model keeps
\* the keywords its strings can contain; the others never match them
ExtractCategories(query) ==
    IF Contains(s_bag, Lower(query)) THEN <<PyStr(s_bag)>> ELSE <<>>

\* the detail fields get_similar_items adds to the query (lines 58-65)
ServiceDetailParts(item_details) ==
    LET field(key) ==
            IF key \in DOMAIN item_details /\ Truthy(item_details[key])
            THEN <<IF item_details[key].t = "list" THEN Join(item_details[key].v)
                   ELSE Str(item_details[key])>>
            ELSE <<>>
    IN  field("size") \o field("material") \o field("color")

\* query_luxury_items as get_similar_items calls it: the brand filter is
\* given, the category filter is taken from the query, and the queries of
\* the model hold no digit, so that no price range is extracted from them
query_luxury_items(store_items, store_index, query, top_k, brand_filter, query_embedding, bm25) ==
    LET categories == ExtractCategories(query)
        category_filter == IF categories # <<>> THEN categories[1] ELSE PyNone
    IN  search(store_items, store_index, query, top_k, brand_filter, category_filter, NoRange,
               TRUE, TRUE, query_embedding, bm25)

\* the top_k estimate_price_with_rag leaves at get_similar_items' default
ServiceTopK == 20

\* lines 70-93: the results of query_luxury_items, [] when it raised
ServiceSimilarFound(found, lexical_searches) ==
    [raised |-> FALSE,
     results |-> IF found.raised THEN <<>> ELSE found.results,
     vector_searches |-> found.vector_searches,
     lexical_searches |-> lexical_searches]

\* LuxuryItemRAGService.get_similar_items(target_item):
\* [raised, results, vector_searches, lexical_searches]
service_get_similar_items(store_items, store_index, target_item, query_embedding, bm25) ==
    IF ~Truthy(Get(target_item, "designer", PyNone))
       \/ ~Truthy(Get(target_item, "model", PyNone))
    THEN [raised |-> FALSE, results |-> <<>>, vector_searches |-> 0,
          lexical_searches |-> 0]
    ELSE IF ~IsStr(target_item.designer) \/ ~IsStr(target_item.model)
    THEN [raised |-> TRUE, results |-> <<>>, vector_searches |-> 0,
          lexical_searches |-> 0]
    ELSE ServiceSimilarFound(
             query_luxury_items(store_items, store_index,
                 Join(<<target_item.designer.v[1], target_item.model.v[1]>>
                      \o ServiceDetailParts(Get(target_item, "item_details", EmptyDict))),
                 ServiceTopK, target_item.designer, query_embedding, bm25),
             IF store_items # <<>> /\ bm25 # "from_texts_raises" THEN 1 ELSE 0)

\* the listing estimate_price_with_rag builds from one retrieved item
\* (lines 126-139)
TransformedFields(item) ==
    [listing_id |-> Get(item, "id", ""),
     source_platform |-> Get(item, "source_platform", ""),
     item_details |->
         [designer |-> Get(item, "brand", PyStr(<<>>)),
          model |-> Get(item, "model", PyStr(<<>>)),
          size |-> Get(item, "size", PyList(<<>>)),
          material |-> Get(item, "materials", PyList(<<>>)),
          color |-> Get(item, "color", PyStr(<<>>))],
     listing_price |-> Get(item, "price", PyNum(0)),
     condition_rating |-> Get(item, "condition_rating", PyNum(3)),
     similarity |-> Get(item, "score", ScoreScale \div 2)]

\* lines 141-143: original_data, when the item has it, overrides the fields
TransformedListing(item) ==
    IF "original_data" \in DOMAIN item THEN item.original_data @@ TransformedFields(item)
    ELSE TransformedFields(item)

\* the retrieved item counts as an exact match (lines 159-162)
ServiceExactMatch(item) ==
    /\ ScoreOf(item) * 100 >= (EXACT_MATCH_SIMILARITY_SCORE \div 48) * ScoreScale
    /\ ~IsNone(Get(item, "price", PyNone))

\* lines 148-172: the estimate with the retrieval's notes added
ServiceResult(similar_items, estimated_price, searches) ==
    IF estimated_price.status = "error" THEN estimated_price @@ searches
    ELSE [retrieval_method |-> "rag",
          rag_items_found |-> Len(similar_items),
          exact_match_count |->
              IF SelectSeq(similar_items, ServiceExactMatch) # <<>>
              THEN Len(SelectSeq(similar_items, ServiceExactMatch))
              ELSE estimated_price.exact_match_count]
             @@ estimated_price @@ searches

\* lines 112-172, once get_similar_items has answered
ServiceFromSimilar(target_item, trend_score, similar) ==
    IF similar.raised
    THEN [status |-> "raised", vector_searches |-> similar.vector_searches,
          lexical_searches |-> similar.lexical_searches]
    ELSE IF similar.results = <<>>
    THEN [status |-> "error",
          error |-> "Insufficient comparable listings found via RAG",
          vector_searches |-> similar.vector_searches,
          lexical_searches |-> similar.lexical_searches]
    ELSE ServiceResult(similar.results,
             estimate_price(target_item,
                            [i \in 1..Len(similar.results) |->
                                TransformedListing(similar.results[i])],
                            trend_score),
             [vector_searches |-> similar.vector_searches,
              lexical_searches |-> similar.lexical_searches])

\* LuxuryItemRAGService.estimate_price_with_rag(target_item, trend_data)
estimate_price_with_rag(store_items, store_index, target_item, trend_score, query_embedding, bm25) ==
    ServiceFromSimilar(target_item, trend_score,
        service_get_similar_items(store_items, store_index, target_item, query_embedding,
                                  bm25))

---------------------------------------------------------------------------
(* SpecSim: calls of calculate_similarity_score on every pair of SimItems *)

NotCalled == 0 - 1

InitSim ==
    /\ item_a \in SimItems
    /\ item_b \in SimItems
    /\ total_score = NotCalled
    /\ target_item_input = PyNone
    /\ all_listings = <<>>
    /\ estimate = PyNone
    /\ items = <<>> /\ index = <<>> /\ call = NoCall
    /\ DefaultStore
    /\ NoRequests

CallSimilarity ==
    /\ total_score = NotCalled
    /\ total_score' = calculate_similarity_score(item_a, item_b)
    /\ UNCHANGED <<trendVars, item_a, item_b, estVars, ragVars, loadVars>>

NextSim == CallSimilarity

SpecSim == InitSim /\ [][NextSim]_vars

\* C3: items whose brands differ after normalization score exactly 0,
\* whatever their model, size, material and color.
C3_BrandGate ==
    (total_score # NotCalled /\ NormBrand(item_a.designer) # NormBrand(item_b.designer))
        => total_score = 0

C3_Witness ==
    /\ total_score = 0
    /\ NormBrand(item_a.designer) # NormBrand(item_b.designer)
    /\ item_a.model = item_b.model /\ item_a.size = item_b.size
    /\ item_a.material = PyStr(s_silk) /\ item_b.material = PyStr(s_silk)
    /\ item_a.color = PyStr(s_red) /\ item_b.color = PyStr(s_red)

\* C4: a fully-specified item compared to itself scores 1.0.
C4_SelfSimilarityIsOne ==
    (total_score # NotCalled /\ item_a = item_b /\ FullySpecified(item_a))
        => total_score = SimScale

\* the attribute is missing: absent, None or empty
Missing(item, key) == ~Truthy(Get(item, key, PyNone))

\* the sub-score of a text attribute in units of 1/48: 0.5 when it is missing
\* on a side, 1 when one value contains the other and the shorter one is
\* longer than guard, else 0
TextSubScore(item_1, item_2, key, guard) ==
    IF Missing(item_1, key) \/ Missing(item_2, key) THEN 24
    ELSE IF (Contains(Field(item_1, key), Field(item_2, key))
                \/ Contains(Field(item_2, key), Field(item_1, key)))
            /\ Min(Len(Field(item_1, key)), Len(Field(item_2, key))) > guard
         THEN 48 ELSE 0

\* C20: for items of one brand, material adds 0.10 x its sub-score and color
\* 0.10 x its sub-score to the total, the sub-score being 0.5 when the
\* attribute is missing on a side, 1.0 on containment with the shorter value
\* longer than 3 (color: 2) characters, else 0.0.
C20_MaterialAndColorTerms ==
    (total_score # NotCalled /\ DesignerMatch(item_a, item_b))
        => total_score = W_designer * 48
                           + W_model * ModelScore(item_a, item_b)
                           + W_size * SizeScore(item_a, item_b)
                           + W_material * TextSubScore(item_a, item_b, "material", 3)
                           + W_color * TextSubScore(item_a, item_b, "color", 2)

\* the size values of a side, a scalar being a list of one; none when size is
\* omitted
SizeValues(item) ==
    IF Missing(item, "size") THEN {} ELSE ToSet(Get(item, "size", PyNone).v)

\* the size sub-score in units of 1/48 as stated: 0.5 when both sides omit
\* size, 1 when a value of one side equals a value of the other ignoring
\* case, else 0
StatedSizeScore(item_1, item_2) ==
    IF Missing(item_1, "size") /\ Missing(item_2, "size") THEN 24
    ELSE IF \E s_a \in SizeValues(item_1), s_b \in SizeValues(item_2) :
                Lower(s_a) = Lower(s_b)
         THEN 48 ELSE 0

\* C21: the size sub-score is 0.5 whenever both sides omit size (None, empty
\* string or empty list), 1.0 when some size value of one side equals a size
\* value of the other ignoring case, and 0.0 otherwise.
C21_SizeSubScore ==
    (total_score # NotCalled /\ DesignerMatch(item_a, item_b))
        => total_score = W_designer * 48 + W_model * ModelScore(item_a, item_b)
                           + W_size * StatedSizeScore(item_a, item_b)
                           + MaterialTerm(item_a, item_b)
                           + W_color * ColorScore(item_a, item_b)

---------------------------------------------------------------------------
(* SpecEst: calls of utils estimate_price on a corpus of listings          *)

\* an optional key of a dict literal
Opt(present, key, value) == IF present THEN key :> value ELSE EmptyDict

TargetDetailsPool ==
    {[size |-> PyStr(s_M), material |-> PyStr(s_silk), color |-> PyStr(s_red)]}

\* marks a key the dict does not have
Absent == [t |-> "absent", v |-> <<>>]

TargetPool ==
    {Opt(d # Absent, "designer", d) @@ Opt(m # Absent, "model", m)
       @@ ("condition_rating" :> c) @@ Opt(has_details, "item_details", det) :
        d \in {PyStr(s_Gu), PyStr(<<>>), PyNone},
        m \in {PyStr(s_Bag), Absent},
        c \in {PyStr(<<"E", "x", "c", "e", "l", "l", "e", "n", "t">>), PyStr(s_fair)},
        det \in TargetDetailsPool,
        has_details \in BOOLEAN}

\* the listings the corpus is drawn from
ListingPool == <<
    \* same brand and model, curated reseller
    [item_details |-> [designer |-> PyStr(s_Gu), model |-> PyStr(s_Bag),
                       size |-> PyStr(s_M), material |-> PyStr(s_silk),
                       color |-> PyStr(s_red)],
     listing_price |-> PyNum(100), condition_rating |-> PyNum(4),
     source_platform |-> "Fashionphile"],
    \* same brand given at top level, longer model name, sparse details
    [designer |-> PyStr(s_Gu), listing_name |-> PyStr(s_BagX),
     item_details |-> [material |-> PyStr(s_pvc)],
     listing_price |-> PyNum(300), condition_rating |-> PyNum(2),
     source_platform |-> "Vestiaire Collective"],
    \* the brand in lower case
    [item_details |-> [designer |-> PyStr(s_gu), model |-> PyStr(s_Bag)],
     listing_price |-> PyNum(200), condition_rating |-> PyNum(3),
     source_platform |-> "Fashionphile"],
    \* another brand, otherwise identical to the target
    [item_details |-> [designer |-> PyStr(s_Pr), model |-> PyStr(s_Bag),
                       size |-> PyStr(s_M), material |-> PyStr(s_silk),
                       color |-> PyStr(s_red)],
     listing_price |-> PyNum(400), condition_rating |-> PyNum(5),
     source_platform |-> "Fashionphile"],
    \* no price
    [item_details |-> [designer |-> PyStr(s_Gu), model |-> PyStr(s_Bag)],
     listing_price |-> PyNone, condition_rating |-> PyNum(4),
     source_platform |-> "other"],
    \* a price that float() rejects
    [item_details |-> [designer |-> PyStr(s_Gu), model |-> PyStr(s_Bag)],
     listing_price |-> PyStr(<<"P", "O", "A">>), condition_rating |-> PyNum(4),
     source_platform |-> "other"] >>

MaxListings == 6

\* corpora: the pool's listings in pool order, each any number of times
\* the non-decreasing sequences over lo..Len(ListingPool) of length at most n
RECURSIVE SortedChoices(_, _)
SortedChoices(n, lo) ==
    IF n = 0 THEN {<<>>}
    ELSE {<<>>} \cup UNION {{<<k>> \o c : c \in SortedChoices(n - 1, k)} :
                               k \in lo..Len(ListingPool)}

Corpora == {[i \in 1..Len(c) |-> ListingPool[c[i]]] : c \in SortedChoices(MaxListings, 1)}

\* what get_trend_score answers, in thousandths
TrendScores == {0, DEFAULT_TREND_SCORE, 1000}

InitEst ==
    /\ target_item_input \in TargetPool
    /\ all_listings \in Corpora
    /\ estimate = PyNone
    /\ item_a = PyNone /\ item_b = PyNone /\ total_score = NotCalled
    /\ items = <<>> /\ index = <<>> /\ call = NoCall
    /\ DefaultStore
    /\ NoRequests

EstimatePrice ==
    /\ \E trend_score \in TrendScores :
          estimate' = estimate_price(target_item_input, all_listings, trend_score)
    /\ target_item_input' = TargetAfter(target_item_input)
    /\ all_listings' = ListingsAfter(target_item_input, all_listings)
    /\ UNCHANGED <<trendVars, simVars, ragVars, loadVars>>

NextEst == EstimatePrice

SpecEst == InitEst /\ [][NextEst]_vars

\* a listing qualifies: same brand as the target, price and condition present,
\* similarity at least the threshold
Qualifies(listing, target) ==
    /\ NormBrand(ListingDesigner(listing)) = NormBrand(Get(target, "designer", PyNone))
    /\ HasPriceAndCondition(listing)
    /\ ListingSimilarity(listing, target) >= MIN_SIMILARITY_THRESHOLD

QualifyingCount(listings, target) ==
    Cardinality({i \in 1..Len(listings) : Qualifies(listings[i], target)})

\* C1: with fewer than MIN_COMPARABLE_LISTINGS qualifying listings the result
\* carries an error and no estimated price.
C1_InsufficientDataIsError ==
    (estimate # PyNone
       /\ QualifyingCount(all_listings, target_item_input) < MIN_COMPARABLE_LISTINGS)
        => (estimate.status = "error" /\ "estimated_price" \notin DOMAIN estimate)

C1_Witness ==
    /\ estimate # PyNone
    /\ estimate.status = "error"
    /\ QualifyingCount(all_listings, target_item_input) = MIN_COMPARABLE_LISTINGS - 1
    /\ Len(all_listings) >= MIN_COMPARABLE_LISTINGS

\* C13: a call of estimate_price leaves its inputs as they were: the target
\* item and every listing, nested item_details included, are equal to their
\* values before the call.
C13_InputsUnchanged ==
    [][target_item_input' = target_item_input /\ all_listings' = all_listings]_vars

\* the listing's brand equals the target's after normalization, and the
\* listing has a price and a condition
SameBrandComparable(listing, target) ==
    /\ NormBrand(ListingDesigner(listing)) = NormBrand(Get(target, "designer", PyNone))
    /\ HasPriceAndCondition(listing)

\* C22: a listing is a same-brand comparable exactly when its brand equals
\* the target's after lower-casing and trimming: the listings considered are
\* those listings, and the ones retained are those among them whose
\* similarity reaches the threshold.
C22_BrandMatchNormalized ==
    /\ (estimate # PyNone /\ "listings_considered" \in DOMAIN estimate)
          => estimate.listings_considered =
                 Cardinality({i \in 1..Len(all_listings) :
                                 SameBrandComparable(all_listings[i], target_item_input)})
    /\ (estimate # PyNone /\ estimate.status = "ok")
          => estimate.comparable_listings_used =
                 Cardinality({i \in 1..Len(all_listings) :
                     /\ SameBrandComparable(all_listings[i], target_item_input)
                     /\ ListingSimilarity(all_listings[i], target_item_input)
                            >= MIN_SIMILARITY_THRESHOLD
                     /\ Numeric(all_listings[i].listing_price)
                     /\ Numeric(all_listings[i].condition_rating)})

\* the prices of the listings the estimate retained, in list order
RetainedPrices(result, listings) ==
    LET pos == SelectSeq([i \in 1..Len(listings) |-> i],
                         LAMBDA i : i \in result.contributing)
    IN  [j \in 1..Len(pos) |-> listings[pos[j]].listing_price.n]

\* the mean of the prices, in hundredths
MeanPrice(prices) == (100 * SumSeq(prices)) \div Len(prices)

\* 1 - min(CV, 0.75) x 0.1 in thousandths, CV being the standard deviation of
\* the prices divided by their mean
StatedVarianceFactor(prices) ==
    IF Len(prices) < 2 \/ MeanPrice(prices) = 0 THEN 1000
    ELSE 1000 - ((Min((ISqrt(PriceVariance(prices) * 100) * 10000) \div MeanPrice(prices),
                      VARIANCE_MAX_CV) * VARIANCE_PENALTY_SCALE) \div 1000)

\* C25: variance_factor = 1 - min(CV, 0.75) x 0.1 where CV is the standard
\* deviation of the retained prices divided by their mean (compared up to
\* one thousandth); hence 0.925 <= variance_factor <= 1, and it is exactly 1
\* when fewer than 2 prices are retained or all retained prices are equal.
C25_VarianceFactor ==
    (estimate # PyNone /\ estimate.status = "ok")
        => LET prices == RetainedPrices(estimate, all_listings)
               stated == StatedVarianceFactor(prices)
           IN  /\ estimate.variance_factor - stated \in {0 - 1, 0, 1}
               /\ estimate.variance_factor >= 925
               /\ estimate.variance_factor <= 1000
               /\ (Len(prices) < 2 \/ \A j \in 1..Len(prices) : prices[j] = prices[1])
                     => estimate.variance_factor = 1000

\* C28: on every successful estimate_price result the base price, the
\* average of the retained prices weighted by source_reliability x
\* similarity, lies between the minimum and the maximum price of the
\* retained comparables, inclusive.
C28_BasePriceWithinPrices ==
    (estimate # PyNone /\ estimate.status = "ok")
        => /\ estimate.base_price_weighted_avg
                  >= 100 * MinSeq(RetainedPrices(estimate, all_listings))
           /\ estimate.base_price_weighted_avg
                  <= 100 * MaxSeq(RetainedPrices(estimate, all_listings))

\* an estimate whose base price lies strictly between the lowest and the
\* highest retained price
C28_Witness ==
    /\ estimate # PyNone
    /\ estimate.status = "ok"
    /\ estimate.base_price_weighted_avg
           > 100 * MinSeq(RetainedPrices(estimate, all_listings))
    /\ estimate.base_price_weighted_avg
           < 100 * MaxSeq(RetainedPrices(estimate, all_listings))

---------------------------------------------------------------------------
(* SpecRag: a vector store filled by add_item / add_items and queried by    *)
(* the retriever, the RAG pricing engine and the RAG service               *)

ItemA == [id |-> "a", brand |-> PyStr(s_Gu), model |-> PyStr(s_Bag),
          category |-> PyStr(s_bag), price |-> PyNum(100), vec |-> 1]
ItemB == [id |-> "b", brand |-> PyStr(s_gu), model |-> PyStr(s_BagX),
          category |-> PyStr(s_bag), price |-> PyNum(300), vec |-> 2]
ItemC == [id |-> "c", brand |-> PyStr(s_Pr), model |-> PyStr(s_Bag),
          category |-> PyStr(s_bag), price |-> PyNum(400), vec |-> 1]
ItemD == [brand |-> PyStr(s_Gu), model |-> PyStr(s_Bag), price |-> PyNum(200),
          vec |-> 0 - 1]

StorePool == {ItemA, ItemB, ItemC, ItemD}
Batches == {<<ItemA, ItemA>>, <<ItemB, ItemC>>, <<ItemD, ItemA>>}

MaxItems == 3

QueryText == s_Gu \o <<" ">> \o s_Bag
QueryEmbeddings == {NoEmbedding, 1, 0 - 1}

\* the filters a search is called with
FilterSets ==
    {[brand_filter |-> PyNone, category_filter |-> PyNone, price_range |-> NoRange],
     [brand_filter |-> PyStr(s_gu), category_filter |-> PyNone, price_range |-> NoRange],
     [brand_filter |-> PyNone, category_filter |-> PyStr(s_Bag),
      price_range |-> [min |-> 150, max |-> 400]],
     [brand_filter |-> PyStr(s_gu), category_filter |-> PyStr(s_Bag),
      price_range |-> [min |-> 100, max |-> 300]]}

\* the item_info the engine is called with
EngineTargets ==
    {[brand |-> PyStr(s_Gu), model |-> PyStr(s_Bag)],
     [designer |-> PyStr(s_Gu), style |-> PyStr(s_Bag), color |-> PyStr(s_red)],
     [brand |-> PyStr(s_Gu)],
     [model |-> PyStr(s_Bag)],
     [brand |-> PyStr(<<>>), model |-> PyNone],
     EmptyDict}

\* <<trend_score, condition_rating>> of an engine call
EngineAdjustments == {<<NotGiven, NotGiven>>, <<1000, 10>>, <<0, 0>>}

\* the target items the service is called with
ServiceTargets ==
    {[designer |-> PyStr(s_Gu), model |-> PyStr(s_Bag),
      condition_rating |-> PyStr(s_excellent)],
     [designer |-> PyStr(s_Gu), model |-> PyStr(s_Bag),
      item_details |-> [size |-> PyList(<<s_M>>), color |-> PyStr(s_red)]],
     [designer |-> PyStr(s_Gu)],
     [model |-> PyStr(s_Bag), item_details |-> [designer |-> PyStr(s_Gu)]],
     [designer |-> PyNone, model |-> PyStr(<<>>)]}

\* A query leaves the store as it is, so every query of a behaviour is the
\* first query on the store it runs on: the query actions are taken from
\* the states in which no query has run since the last ingestion.
InitRag ==
    /\ items = <<>> /\ index = <<>> /\ call = NoCall
    /\ DefaultStore
    /\ NoRequests
    /\ item_a = PyNone /\ item_b = PyNone /\ total_score = NotCalled
    /\ target_item_input = PyNone /\ all_listings = <<>> /\ estimate = PyNone

\* VectorStore.add_item(item); embedded: the provider gave an embedding
AddItem ==
    \E item \in StorePool, embedded \in BOOLEAN :
        /\ Len(items) < MaxItems
        /\ items' = IF embedded THEN Append(items, item) ELSE items
        /\ index' = IF embedded THEN Append(index, get_embedding(item)) ELSE index
        /\ call' = NoCall
        /\ UNCHANGED <<trendVars, simVars, estVars, loadVars>>

\* VectorStore.add_items(batch); embedded: the positions of the batch the
\* provider gave an embedding for; insert_fails: index.add raises
AddItems ==
    \E batch \in Batches, embedded \in SUBSET {1, 2}, insert_fails \in BOOLEAN :
        LET items_to_add == SelectSeq([i \in 1..Len(batch) |-> i],
                                      LAMBDA i : i \in embedded)
            added == items_to_add # <<>> /\ ~insert_fails
        IN  /\ Len(items) + Len(batch) <= MaxItems
            /\ items' = IF added
                        THEN items \o [i \in 1..Len(items_to_add) |-> batch[items_to_add[i]]]
                        ELSE items
            /\ index' = IF added
                        THEN index \o [i \in 1..Len(items_to_add) |->
                                          get_embedding(batch[items_to_add[i]])]
                        ELSE index
            /\ call' = NoCall
            /\ UNCHANGED <<trendVars, simVars, estVars, loadVars>>

\* LuxuryItemsRetriever._hybrid_search(query, top_k)
HybridSearch ==
    \E top_k \in 1..3, query_embedding \in QueryEmbeddings, bm25 \in BM25Outcomes :
        /\ call = NoCall
        /\ call' = [op |-> "_hybrid_search", top_k |-> top_k]
                       @@ _hybrid_search(items, index, QueryText, top_k, query_embedding, bm25)
        /\ UNCHANGED <<trendVars, simVars, estVars, storeVars, loadVars>>

\* LuxuryItemsRetriever.search(query, top_k, filters, use_hybrid_search, use_reranker)
Search ==
    \E top_k \in 1..2, f \in FilterSets, use_hybrid_search \in BOOLEAN,
       use_reranker \in BOOLEAN, query_embedding \in QueryEmbeddings,
       bm25 \in BM25Outcomes :
        /\ call = NoCall
        /\ call' = [op |-> "search", top_k |-> top_k, use_hybrid_search |-> use_hybrid_search,
                    use_reranker |-> use_reranker] @@ f
                       @@ search(items, index, QueryText, top_k, f.brand_filter,
                                 f.category_filter, f.price_range, use_hybrid_search,
                                 use_reranker, query_embedding, bm25)
        /\ UNCHANGED <<trendVars, simVars, estVars, storeVars, loadVars>>

\* LuxuryItemsRetriever.get_similar_items(item_id, top_k, use_reranker)
GetSimilarItems ==
    \E item_id \in {"a", "b", "z"}, top_k \in 1..2, use_reranker \in BOOLEAN,
       query_embedding \in QueryEmbeddings, bm25 \in BM25Outcomes :
        /\ call = NoCall
        /\ call' = [op |-> "get_similar_items", item_id |-> item_id, top_k |-> top_k]
                       @@ get_similar_items(items, index, item_id, top_k, use_reranker,
                                            query_embedding, bm25)
        /\ UNCHANGED <<trendVars, simVars, estVars, storeVars, loadVars>>

\* RAGPricingEngine.estimate_price(item_info, trend_score, condition_rating)
\* of an engine whose store, when the path exists, holds what was ingested
RagEstimate ==
    \E store_available \in BOOLEAN, item_info \in EngineTargets,
       adj \in EngineAdjustments, query_embedding \in QueryEmbeddings :
        /\ call = NoCall
        /\ call' = [op |-> "rag_estimate", item_info |-> item_info,
                    store_available |-> store_available,
                    result |-> rag_estimate_price(store_available, items, index, item_info,
                                                  adj[1], adj[2], query_embedding)]
        /\ UNCHANGED <<trendVars, simVars, estVars, storeVars, loadVars>>

\* LuxuryItemRAGService.estimate_price_with_rag(target_item, trend_data)
ServiceEstimate ==
    \E target_item \in ServiceTargets, query_embedding \in QueryEmbeddings,
       bm25 \in BM25Outcomes :
        /\ call = NoCall
        /\ call' = [op |-> "service_estimate", target_item |-> target_item,
                    result |-> estimate_price_with_rag(items, index, target_item,
                                                       DEFAULT_TREND_SCORE,
                                                       query_embedding, bm25)]
        /\ UNCHANGED <<trendVars, simVars, estVars, storeVars, loadVars>>

NextRag ==
    \/ AddItem
    \/ AddItems
    \/ HybridSearch
    \/ Search
    \/ GetSimilarItems
    \/ RagEstimate
    \/ ServiceEstimate

SpecRag == InitRag /\ [][NextRag]_vars

\* an item without what retrieval and reranking add to it
Bare(item) == [k \in DOMAIN item \ {"score", "metadata"} |-> item[k]]

\* the number of entries of list that are item, up to score and metadata
CountOf(item, list) == Cardinality({i \in 1..Len(list) : Bare(list[i]) = Bare(item)})

\* the brand a stored listing carries
StoredBrand(item) ==
    Get(Get(item, "item_details", EmptyDict), "designer", Get(item, "brand", PyNone))

\* the brand the engine reads from item_info
EngineBrand(item_info) ==
    Or(Get(item_info, "brand", PyStr(<<>>)), Get(item_info, "designer", PyStr(<<>>)))

\* the model the engine reads from item_info
EngineModel(item_info) ==
    Or(Get(item_info, "model", PyStr(<<>>)), Get(item_info, "style", PyStr(<<>>)))

\* C2: every listing whose price enters a returned estimate has the target's
\* normalized brand, in utils estimate_price and in RAGPricingEngine.estimate_price.
C2_SameBrandOnly ==
    /\ (estimate # PyNone /\ estimate.status = "ok")
           => \A i \in estimate.contributing :
                  NormBrand(ListingDesigner(all_listings[i]))
                      = NormBrand(Get(target_item_input, "designer", PyNone))
    /\ (call.op = "rag_estimate" /\ "error" \notin DOMAIN call.result
          /\ Truthy(EngineBrand(call.item_info)))
           => \A i \in 1..Len(call.result.contributing) :
                  NormBrand(StoredBrand(call.result.contributing[i]))
                      = NormBrand(EngineBrand(call.item_info))

\* some entry of the store is stored a second time
StoredTwice == \E i, j \in 1..Len(items) : i < j /\ items[i] = items[j]

\* C5: when the store keeps both copies of a listing ingested twice, every
\* list search returns holds at most one result per id.
C5_OneResultPerId ==
    (call.op = "search" /\ ~call.raised /\ StoredTwice)
        => \A i, j \in 1..Len(call.results) :
               (i < j /\ "id" \in DOMAIN call.results[i] /\ "id" \in DOMAIN call.results[j])
                   => call.results[i].id # call.results[j].id

\* C6: when the hybrid path raises inside search or get_similar_items, the
\* operation returns a list and no exception reaches the caller.
C6_FallbackNeverRaises ==
    (call.op \in {"search", "get_similar_items"} /\ call.hybrid_raised) => ~call.raised

\* C8: every item (here: every item that has an id) BM25 returned and the
\* vector search did not is in the fused list of _hybrid_search, with a
\* score above 0.
C8_LexicalOnlyKept ==
    (call.op = "_hybrid_search" /\ ~call.raised)
        => \A b \in 1..Len(call.bm25_results) :
               ("id" \in DOMAIN call.bm25_results[b]
                  /\ CountOf(call.bm25_results[b], call.vector_results) = 0)
                   => \E r \in 1..Len(call.results) :
                          /\ Bare(call.results[r]) = Bare(call.bm25_results[b])
                          /\ ScoreOf(call.results[r]) > 0

\* the results of a list that carry the id
WithId(list, id) == SelectSeq(list, LAMBDA item : "id" \in DOMAIN item /\ item.id = id)

\* the score of the vector result that carries the id: the highest when
\* several do, as lines 183-191 keep it
VectorScore(vector_results, id) ==
    MaxSeq([i \in 1..Len(WithId(vector_results, id)) |->
               ScoreOf(WithId(vector_results, id)[i])])

\* C19: in the list _merge_search_results produces each id appears once; a
\* result both searches found has 1.2 x its vector score, one only the
\* vector search found keeps its vector score, and one only the lexical
\* search found has the score 0.5.
C19_MergedScores ==
    (call.op = "_hybrid_search" /\ ~call.raised)
        => \A r \in 1..Len(call.results) :
               /\ Len(WithId(call.results, call.results[r].id)) = 1
               /\ ScoreOf(call.results[r]) =
                      IF WithId(call.vector_results, call.results[r].id) = <<>>
                      THEN BM25Score
                      ELSE IF WithId(call.bm25_results, call.results[r].id) = <<>>
                      THEN VectorScore(call.vector_results, call.results[r].id)
                      ELSE BoostBoth(VectorScore(call.vector_results, call.results[r].id))

\* the result satisfies the filters the search was called with
SatisfiesFilters(item, c) ==
    /\ Truthy(c.brand_filter) => FieldEquals(item, "brand", c.brand_filter)
    /\ Truthy(c.category_filter) => FieldEquals(item, "category", c.category_filter)
    /\ c.price_range # NoRange => PriceInRange(item, c.price_range)

\* C9: every result of search satisfies the filters supplied, the results
\* are drawn from the fused candidates of the one retrieval, and there are
\* at most top_k of them.
C9_FiltersHold ==
    (call.op = "search" /\ ~call.raised)
        => /\ \A i \in 1..Len(call.results) :
                  /\ SatisfiesFilters(call.results[i], call)
                  /\ CountOf(call.results[i], call.results)
                         <= CountOf(call.results[i], call.candidates)
           /\ Len(call.results) <= call.top_k

\* a filtered search whose candidates held an item of another brand and that
\* returned fewer than top_k results
C9_Witness ==
    /\ call.op = "search" /\ ~call.raised
    /\ Truthy(call.brand_filter)
    /\ \E i \in 1..Len(call.candidates) :
           ~FieldEquals(call.candidates[i], "brand", call.brand_filter)
    /\ call.results # <<>>
    /\ Len(call.results) < call.top_k

\* C10: a target that lacks a brand or a model gets an error result, before
\* any listing scan, vector search or lexical search, from utils
\* estimate_price, RAGPricingEngine.estimate_price and estimate_price_with_rag.
C10_RejectBeforeRetrieval ==
    /\ (estimate # PyNone
          /\ (~Truthy(Get(target_item_input, "designer", PyNone))
                \/ ~Truthy(Get(target_item_input, "model", PyNone))))
           => (estimate.status = "error" /\ estimate.listings_scanned = 0)
    /\ (call.op = "rag_estimate"
          /\ (~Truthy(EngineBrand(call.item_info)) \/ ~Truthy(EngineModel(call.item_info))))
           => ("error" \in DOMAIN call.result /\ call.result.vector_searches = 0)
    /\ (call.op = "service_estimate"
          /\ (~Truthy(Get(call.target_item, "designer", PyNone))
                \/ ~Truthy(Get(call.target_item, "model", PyNone))))
           => /\ call.result.status = "error"
              /\ call.result.vector_searches = 0
              /\ call.result.lexical_searches = 0

---------------------------------------------------------------------------
(* SpecRerank: calls of EnsembleReranker.rerank on ensembles of keyword,   *)
(* semantic and base-class strategies                                      *)

\* a retrieved item whose brand is a number: KeywordMatchReranker raises on it
ItemN == [id |-> "n", brand |-> PyNum(5), model |-> PyStr(s_Bag), vec |-> 1]

RerankPool ==
    {SetKey(ItemA, "score", ScoreScale),
     SetKey(ItemB, "score", ScoreScale \div 2),
     SetKey(ItemN, "score", ScoreScale \div 5),
     SetKey(ItemD, "score", ScoreScale \div 2)}

MaxResults == 2

RerankInputs == UNION {[1..n -> RerankPool] : n \in 1..MaxResults}

StrategyKinds == {"keyword", "semantic", "base"}

\* the ensembles: one or two strategies; weights left out, or 1 and 3
Ensembles ==
    {[rerankers |-> r, weights |-> EqualWeights(Len(r))] :
        r \in [1..1 -> StrategyKinds] \cup [1..2 -> StrategyKinds]}
    \cup {[rerankers |-> r, weights |-> NormalizedWeights(<<1, 3>>)] :
             r \in [1..2 -> StrategyKinds]}

InitRerank ==
    /\ call = NoCall
    /\ items = <<>> /\ index = <<>>
    /\ DefaultStore
    /\ NoRequests
    /\ item_a = PyNone /\ item_b = PyNone /\ total_score = NotCalled
    /\ target_item_input = PyNone /\ all_listings = <<>> /\ estimate = PyNone

\* EnsembleReranker(rerankers, weights).rerank(query, results, top_k)
Rerank ==
    \E results \in RerankInputs, e \in Ensembles, top_k \in {NoTopK, 1},
       query_embedding \in QueryEmbeddings, provider_up \in BOOLEAN :
        /\ call = NoCall
        /\ call' = [op |-> "rerank", rerankers |-> e.rerankers, weights |-> e.weights,
                    results_in |-> results, top_k |-> top_k,
                    query_embedding |-> query_embedding, provider_up |-> provider_up,
                    out |-> EnsembleRerank(e.rerankers, e.weights, QueryText,
                                           query_embedding, results, top_k, provider_up)]
        /\ UNCHANGED <<trendVars, simVars, estVars, storeVars, loadVars>>

\* KeywordMatchReranker().rerank(query, results, top_k)
RerankKeyword ==
    \E results \in RerankInputs, top_k \in {NoTopK, 1} :
        /\ call = NoCall
        /\ call' = [op |-> "rerank_one", kind |-> "keyword", results_in |-> results,
                    top_k |-> top_k, query_embedding |-> NoEmbedding,
                    provider_up |-> FALSE]
                       @@ KeywordRerank(QueryText, results, top_k)
        /\ UNCHANGED <<trendVars, simVars, estVars, storeVars, loadVars>>

\* SemanticReranker().rerank(query, results, top_k)
RerankSemantic ==
    \E results \in RerankInputs, top_k \in {NoTopK, 1},
       query_embedding \in QueryEmbeddings, provider_up \in BOOLEAN :
        /\ call = NoCall
        /\ call' = [op |-> "rerank_one", kind |-> "semantic", results_in |-> results,
                    top_k |-> top_k, query_embedding |-> query_embedding,
                    provider_up |-> provider_up]
                       @@ SemanticRerank(query_embedding, results, top_k, provider_up)
        /\ UNCHANGED <<trendVars, simVars, estVars, storeVars, loadVars>>

NextRerank ==
    \/ Rerank
    \/ RerankKeyword
    \/ RerankSemantic

SpecRerank == InitRerank /\ [][NextRerank]_vars

\* the strategy raises on these results: the base class always, the keyword
\* strategy when an item's brand or model is not a str
StrategyRaises(kind, results) ==
    \/ kind = "base"
    \/ kind = "keyword" /\ \E i \in 1..Len(results) : KeywordRaises(results[i])

\* the positions of the strategies of call c that do not raise
NonFailing(c) ==
    SelectSeq([i \in 1..Len(c.rerankers) |-> i],
              LAMBDA i : ~StrategyRaises(c.rerankers[i], c.results_in))

\* the run of call c with the failing strategies left out of the ensemble
RunWithoutFailing(c) ==
    EnsembleRerank([j \in 1..Len(NonFailing(c)) |-> c.rerankers[NonFailing(c)[j]]],
                   [j \in 1..Len(NonFailing(c)) |-> c.weights[NonFailing(c)[j]]],
                   QueryText, c.query_embedding, c.results_in, c.top_k, c.provider_up)

\* the items of a list with their scores, metadata left out
Scored(list) ==
    [i \in 1..Len(list) |-> [item |-> Bare(list[i]), score |-> ScoreOf(list[i])]]

\* C7: when strategies raise inside EnsembleReranker.rerank, it returns the
\* results it was given (cut to top_k), and every score is the score of the
\* run in which the failing strategies are absent.
C7_FailingStrategyIsolated ==
    (call.op = "rerank"
       /\ \E i \in 1..Len(call.rerankers) :
              StrategyRaises(call.rerankers[i], call.results_in))
        => /\ Len(call.out) = Len(Limit(call.results_in, call.top_k))
           /\ \A i \in 1..Len(call.out) :
                  CountOf(call.out[i], call.out) <= CountOf(call.out[i], call.results_in)
           /\ call.top_k = NoTopK
                  => \A i \in 1..Len(call.results_in) :
                         CountOf(call.results_in[i], call.out)
                             = CountOf(call.results_in[i], call.results_in)
           /\ Scored(call.out) = Scored(RunWithoutFailing(call))

\* a run in which one strategy raised and another changed a score
C7_Witness ==
    /\ call.op = "rerank"
    /\ \E i \in 1..Len(call.rerankers) :
           StrategyRaises(call.rerankers[i], call.results_in)
    /\ NonFailing(call) # <<>>
    /\ \E i \in 1..Len(call.out) :
           ScoreOf(call.out[i]) # (call.out[i].metadata.original_score * 2) \div 10

\* what the strategy alone adds to the item's score in call c: nothing when
\* it raises or cannot embed
StrategyBoost(kind, item, c) ==
    CASE kind = "keyword" ->
             IF StrategyRaises(kind, c.results_in) THEN 0 ELSE KeywordBoost(QueryText, item)
      [] kind = "semantic" ->
             IF c.query_embedding = NoEmbedding \/ NoItemText(item)
                \/ ItemEmbedding(item, c.provider_up) = NoEmbedding
             THEN 0
             ELSE SemanticScore(c.query_embedding, ItemEmbedding(item, c.provider_up))
      [] OTHER -> 0

\* the sum over the strategies of call c of weight times boost
WeightedBoosts(c, item) ==
    SumSeq([i \in 1..Len(c.rerankers) |->
               (StrategyBoost(c.rerankers[i], item, c) * c.weights[i].num)
                   \div c.weights[i].den])

\* C18: every result with an id leaves EnsembleReranker.rerank with the score
\* sum of weight x boost over the strategies plus 0.2 x its score before the
\* rerank, each boost being what the strategy alone adds.
C18_ScoreIsWeightedSum ==
    call.op = "rerank"
        => \A i \in 1..Len(call.out) :
               "id" \in DOMAIN call.out[i]
                   => ScoreOf(call.out[i])
                          = WeightedBoosts(call, call.out[i])
                              + (call.out[i].metadata.original_score * 2) \div 10

\* the item without its model
WithoutModel(item) == [key \in DOMAIN item \ {"model"} |-> item[key]]

\* the part of the item's keyword boost that its model earned
ModelBoostOf(item) ==
    item.metadata.keyword_boost - KeywordBoost(QueryText, WithoutModel(item))

\* the tokens of the item's model, and those of them that are query tokens
ModelTokens(item) == Split(Lower(Str(item.model)))
MatchedTokens(item) ==
    SelectSeq(ModelTokens(item), LAMBDA w : w \in ToSet(Split(Lower(QueryText))))

\* the keyword strategy ran on the results of call c
KeywordRan(c) ==
    /\ c.op = "rerank"
    /\ \E i \in 1..Len(c.rerankers) : c.rerankers[i] = "keyword"
    /\ ~StrategyRaises("keyword", c.results_in)

\* C23: a candidate whose model shares some but not all of its tokens with
\* the query receives a positive model boost scaled by matched tokens / model
\* tokens; one whose model shares no token receives no model boost; the brand
\* boost constant exceeds the model boost constant, which exceeds the
\* material boost constant.
C23_PartialModelBoost ==
    KeywordRan(call)
        => /\ brand_boost > model_boost /\ model_boost > material_boost
           /\ \A i \in 1..Len(call.out) :
                  (HasText(call.out[i], "model")
                     /\ "keyword_boost" \in DOMAIN Get(call.out[i], "metadata", EmptyDict))
                      => /\ MatchedTokens(call.out[i]) = <<>>
                               => ModelBoostOf(call.out[i]) = 0
                         /\ (MatchedTokens(call.out[i]) # <<>>
                               /\ Len(MatchedTokens(call.out[i]))
                                      < Len(ModelTokens(call.out[i])))
                               => /\ ModelBoostOf(call.out[i]) > 0
                                  /\ ModelBoostOf(call.out[i]) % model_boost
                                         = (model_boost * Len(MatchedTokens(call.out[i])))
                                               \div Len(ModelTokens(call.out[i]))

\* what a rerank call of any of the three classes returned
Returned(c) == IF c.op = "rerank" THEN c.out ELSE c.results

\* the list is in non-increasing score order
ScoreOrdered(list) ==
    \A i \in 1..(Len(list) - 1) : ScoreOf(list[i]) >= ScoreOf(list[i + 1])

\* C26: for every reranker and every top_k given, rerank returns exactly
\* min(top_k, number of input results) items, which are a prefix of a
\* permutation of the input in non-increasing score order, also when the
\* embedding provider gives no embedding (calls that return, not raise).
C26_RerankReturnsTopK ==
    (call.op \in {"rerank", "rerank_one"} /\ (call.op = "rerank_one" => ~call.raised))
        => /\ Len(Returned(call)) = Len(Limit(call.results_in, call.top_k))
           /\ \A i \in 1..Len(Returned(call)) :
                  CountOf(Returned(call)[i], Returned(call))
                      <= CountOf(Returned(call)[i], call.results_in)
           /\ ScoreOrdered(Returned(call))

---------------------------------------------------------------------------
(* clean_scraped_data.py: clean_data and its helpers                       *)

DigitChars == <<"0", "1", "2", "3", "4", "5", "6", "7", "8", "9">>

IsDigit(c) == \E d \in 1..10 : DigitChars[d] = c

DigitValue(c) == (CHOOSE d \in 1..10 : DigitChars[d] = c) - 1

\* str(n) of a non-negative int
RECURSIVE NatToStr(_)
NatToStr(n) ==
    IF n < 10 THEN <<DigitChars[n + 1]>>
    ELSE Append(NatToStr(n \div 10), DigitChars[(n % 10) + 1])

\* str(n) of an int
IntToStr(n) == IF n < 0 THEN <<"-">> \o NatToStr(0 - n) ELSE NatToStr(n)

\* str(price_input)
PriceStr(price_input) ==
    IF price_input.t = "num" THEN IntToStr(price_input.n) ELSE Str(price_input)

\* re.sub(r"[$,€£CHF\s]", "", price_str)
PriceNoise == {"$", ",", "€", "£", "C", "H", "F", " "}

StripPriceNoise(price_str) == SelectSeq(price_str, LAMBDA c : c \notin PriceNoise)

\* the value of a string of digits
RECURSIVE DigitsValue(_, _)
DigitsValue(digits, acc) ==
    IF digits = <<>> THEN acc
    ELSE DigitsValue(Tail(digits), acc * 10 + DigitValue(Head(digits)))

AllDigits(s) == s # <<>> /\ \A i \in 1..Len(s) : IsDigit(s[i])

\* float(cleaned) of a signed string of digits; anything else is a ValueError
FloatRaises(cleaned) ==
    ~(AllDigits(cleaned) \/ (cleaned # <<>> /\ Head(cleaned) = "-" /\ AllDigits(Tail(cleaned))))

FloatOf(cleaned) ==
    IF Head(cleaned) = "-" THEN 0 - DigitsValue(Tail(cleaned), 0)
    ELSE DigitsValue(cleaned, 0)

UpperChar(c) ==
    CASE c = "c" -> "C"
      [] c = "h" -> "H"
      [] c = "f" -> "F"
      [] OTHER -> c

\* str.upper()
Upper(s) == [i \in 1..Len(s) |-> UpperChar(s[i])]

s_CHF == <<"C", "H", "F">>
s_chf == <<"c", "h", "f">>

\* prices are counted in hundredths; CHF_TO_USD_RATE in hundredths
CHF_TO_USD_RATE == 110

\* clean_price(price_input, currency): None, or the price as a number
clean_price(price_input, currency) ==
    IF FloatRaises(StripPriceNoise(PriceStr(price_input))) THEN PyNone
    ELSE IF Truthy(currency) /\ Upper(currency.v[1]) = s_CHF
         THEN PyNum(FloatOf(StripPriceNoise(PriceStr(price_input))) * CHF_TO_USD_RATE)
         ELSE PyNum(FloatOf(StripPriceNoise(PriceStr(price_input))) * 100)

s_shows_wear == <<"s", "h", "o", "w", "s", " ", "w", "e", "a", "r">>
s_never_worn == <<"n", "e", "v", "e", "r", " ", "w", "o", "r", "n">>

\* map_condition_to_score(rating_input). Every key of CONDITION_RATING_TO_SCORE
\* but "new" contains one of the phrases of the partial matches and has the
\* score of the first it contains, so the lookup and the partial matches are
\* one cascade.
map_condition_to_score(rating_input) ==
    IF ~IsStr(rating_input) THEN PyNone
    ELSE PyNum(CASE Strip(Lower(rating_input.v[1])) = s_new -> 5
                 [] Contains(s_shows_wear, Strip(Lower(rating_input.v[1]))) -> 1
                 [] Contains(s_never_worn, Strip(Lower(rating_input.v[1]))) -> 5
                 [] Contains(s_excellent, Strip(Lower(rating_input.v[1]))) -> 4
                 [] Contains(s_very_good, Strip(Lower(rating_input.v[1]))) -> 3
                 [] Contains(s_good, Strip(Lower(rating_input.v[1]))) -> 2
                 [] Contains(s_fair, Strip(Lower(rating_input.v[1]))) -> 1
                 [] OTHER -> DEFAULT_CONDITION_SCORE)

s_Fashionphile == <<"F", "a", "s", "h", "i", "o", "n", "p", "h", "i", "l", "e">>
s_fashionphile == Lower(s_Fashionphile)
s_vestiaire == <<"v", "e", "s", "t", "i", "a", "i", "r", "e">>
s_Vestiaire_Collective ==
    <<"V", "e", "s", "t", "i", "a", "i", "r", "e", " ", "C", "o", "l", "l", "e", "c", "t", "i", "v", "e">>
s_vc_com == s_vestiaire \o <<"c", "o", "l", "l", "e", "c", "t", "i", "v", "e", ".", "c", "o", "m">>
s_fp_com == s_fashionphile \o <<".", "c", "o", "m">>

\* listing.get("source_platform") or listing.get("source_plateform")
SourceField(listing) ==
    Or(Get(listing, "source_platform", PyNone), Get(listing, "source_plateform", PyNone))

\* the platform named by a non-blank source string
SourceFromName(source) ==
    CASE Contains(s_vestiaire, Strip(Lower(source))) -> PyStr(s_Vestiaire_Collective)
      [] Contains(s_fashionphile, Strip(Lower(source))) -> PyStr(s_Fashionphile)
      [] OTHER -> PyStr(Strip(source))

\* the platform named by the listing's url
SourceFromUrl(url) ==
    CASE Contains(s_fp_com, url) -> PyStr(s_Fashionphile)
      [] Contains(s_vc_com, url) -> PyStr(s_Vestiaire_Collective)
      [] OTHER -> PyNone

\* determine_source(listing): None, or the platform's name
determine_source(listing) ==
    IF IsStr(SourceField(listing)) /\ Strip(SourceField(listing).v[1]) # <<>>
    THEN SourceFromName(SourceField(listing).v[1])
    ELSE SourceFromUrl(Get(listing, "listing_url", PyStr(<<>>)).v[1])

\* re.subn(r'\s+\bdesc\b$', '', cleaned_model, flags=re.IGNORECASE), stripped
RemoveTrailingWord(cleaned_model, desc) ==
    IF Len(cleaned_model) > Len(desc)
       /\ Lower(SubSeq(cleaned_model, Len(cleaned_model) - Len(desc) + 1, Len(cleaned_model))) = desc
       /\ IsSpace(cleaned_model[Len(cleaned_model) - Len(desc)])
    THEN Strip(SubSeq(cleaned_model, 1, Len(cleaned_model) - Len(desc)))
    ELSE cleaned_model

\* one pass over the descriptors, longest first
RECURSIVE RemoveDescriptors(_, _)
RemoveDescriptors(cleaned_model, sorted_descriptors) ==
    IF sorted_descriptors = <<>> THEN cleaned_model
    ELSE RemoveDescriptors(RemoveTrailingWord(cleaned_model, Head(sorted_descriptors)),
                           Tail(sorted_descriptors))

\* re.sub(r'[\s,-]+$', '', cleaned_model)
RECURSIVE StripTrailingPunct(_)
StripTrailingPunct(cleaned_model) ==
    IF cleaned_model # <<>> /\ cleaned_model[Len(cleaned_model)] \in {" ", ",", "-"}
    THEN StripTrailingPunct(SubSeq(cleaned_model, 1, Len(cleaned_model) - 1))
    ELSE cleaned_model

\* descriptors_to_remove of a listing without category, size and material:
\* the colour, when it is a single colour
ColorDescriptors(color) ==
    IF IsStr(color) /\ Strip(color.v[1]) # <<>> THEN <<Lower(Strip(color.v[1]))>> ELSE <<>>

\* the model name after the (at most three) passes and the final trim
CleanedModel(raw, sorted_descriptors) ==
    Strip(StripTrailingPunct(
        RemoveDescriptors(RemoveDescriptors(RemoveDescriptors(Strip(raw), sorted_descriptors),
                                            sorted_descriptors), sorted_descriptors)))

\* clean_model_name(raw_model_name, "Unknown", None, None, color)
clean_model_name(raw_model_name, color) ==
    IF ~IsStr(raw_model_name) \/ Strip(raw_model_name.v[1]) = <<>> THEN raw_model_name
    ELSE IF Len(CleanedModel(raw_model_name.v[1], ColorDescriptors(color))) > 2
         THEN PyStr(CleanedModel(raw_model_name.v[1], ColorDescriptors(color)))
         ELSE PyStr(Strip(raw_model_name.v[1]))

\* details_input.get("designer", listing.get("designer"))
designer_raw(listing) == ListingDesigner(listing)

\* details_input.get("model", listing.get("model", listing.get("listing_name")))
model_raw(listing) ==
    Get(Get(listing, "item_details", EmptyDict), "model",
        Get(listing, "model", Get(listing, "listing_name", PyNone)))

\* designer_raw.strip() if isinstance(designer_raw, str) else None
designer_cleaned(listing) ==
    IF IsStr(designer_raw(listing)) THEN PyStr(Strip(designer_raw(listing).v[1])) ELSE PyNone

\* the condition the listing's platform reports
condition_input(listing, source) ==
    IF source = PyStr(s_Vestiaire_Collective)
    THEN Get(listing, "condition_description", PyNone)
    ELSE Get(listing, "condition_rating", PyNone)

\* a str is stripped, anything else is kept
StripIfStr(x) == IF IsStr(x) THEN PyStr(Strip(x.v[1])) ELSE x

\* the colour of the cleaned listing; a Fashionphile listing without one gets
\* the colours of its description, and the listings here have no description
color_str(listing, source) ==
    IF source = PyStr(s_Fashionphile)
       /\ (~IsStr(Get(Get(listing, "item_details", EmptyDict), "color", PyNone))
           \/ Strip(Get(Get(listing, "item_details", EmptyDict), "color", PyNone).v[1]) = <<>>)
    THEN PyNone
    ELSE StripIfStr(Get(Get(listing, "item_details", EmptyDict), "color", PyNone))

\* final_model
final_model(listing, source) ==
    IF source = PyStr(s_Fashionphile)
    THEN clean_model_name(model_raw(listing), color_str(listing, source))
    ELSE StripIfStr(model_raw(listing))

\* step 3 of the loop: the listing is skipped
MissingEssentials(listing, source) ==
    \/ IsNone(clean_price(Get(listing, "listing_price", PyNone), Get(listing, "currency", PyNone)))
    \/ IsNone(map_condition_to_score(condition_input(listing, source)))
    \/ ~Truthy(designer_cleaned(listing))
    \/ ~Truthy(model_raw(listing))

s_USD == <<"U", "S", "D">>

\* the cleaned listing (the fields copied through unchanged are left out)
cleaned_listing(listing, source) ==
    [source_platform |-> source,
     listing_price |-> clean_price(Get(listing, "listing_price", PyNone),
                                   Get(listing, "currency", PyNone)),
     currency |-> PyStr(s_USD),
     condition_rating |-> map_condition_to_score(condition_input(listing, source)),
     item_details |-> [designer |-> designer_cleaned(listing),
                       model |-> final_model(listing, source),
                       size |-> PyNone, material |-> PyNone,
                       color |-> color_str(listing, source)]]

\* the listing reaches cleaned_data.append
Cleaned(listing) ==
    /\ ~IsNone(determine_source(listing))
    /\ ~MissingEssentials(listing, determine_source(listing))
    /\ ~IsNone(final_model(listing, determine_source(listing)))

\* clean_data(raw_listings)
clean_data(raw_listings) ==
    [i \in 1..Len(SelectSeq(raw_listings, Cleaned)) |->
        cleaned_listing(SelectSeq(raw_listings, Cleaned)[i],
                        determine_source(SelectSeq(raw_listings, Cleaned)[i]))]

---------------------------------------------------------------------------
(* SpecIngest: clean_data on scraped listings, and a vector store filled    *)
(* with listings as they come                                              *)

s_Bag_red == s_Bag \o <<" ">> \o s_red

RawSources == {Absent, PyStr(s_Fashionphile), PyStr(s_Vestiaire_Collective)}
RawPrices ==
    {PyNone, PyStr(<<"$", "1", ",", "2", "0", "0">>), PyStr(<<"0">>), PyStr(<<"-", "5">>),
     PyNum(250), PyNum(0), PyStr(<<"P", "O", "A">>)}
RawCurrencies == {Absent, PyStr(s_chf)}
RawConditions == {PyNone, PyStr(s_good)}
RawDesigners == {Absent, PyStr(s_Gu), PyStr(s_sp), PyStr(s_Gu_sp)}
RawModels == {Absent, PyStr(s_Bag), PyStr(s_sp), PyStr(s_Bag_red)}
RawColors == {Absent, PyStr(s_red)}

\* the scraped listings: a field that is Absent is not a key of the listing
RawListings ==
    {Opt(source # Absent, "source_platform", source)
       @@ ("listing_price" :> price)
       @@ Opt(currency # Absent, "currency", currency)
       @@ ("condition_rating" :> condition) @@ ("condition_description" :> condition)
       @@ ("item_details" :> (Opt(designer # Absent, "designer", designer)
                                @@ Opt(model # Absent, "model", model)
                                @@ Opt(color # Absent, "color", color))) :
        source \in RawSources, price \in RawPrices, currency \in RawCurrencies,
        condition \in RawConditions, designer \in RawDesigners, model \in RawModels,
        color \in RawColors}

\* a good listing, scraped twice with a bad one between
RawBatch ==
    LET good == ("source_platform" :> PyStr(s_Fashionphile)) @@ ("listing_price" :> PyNum(250))
                  @@ ("condition_rating" :> PyStr(s_good))
                  @@ ("item_details" :> [designer |-> PyStr(s_Gu), model |-> PyStr(s_Bag)])
    IN  <<good, [good EXCEPT !["listing_price"] = PyNone], good>>

\* items offered to the store: a sound one, one given away, one with a
\* negative price, one with an empty brand, one without a model
ItemFree == [ItemA EXCEPT !.price = PyNum(0)]
ItemNegative == [ItemA EXCEPT !.price = PyNum(0 - 5)]
ItemNoBrand == [ItemA EXCEPT !.brand = PyStr(<<>>)]
ItemNoModel == [id |-> "m", brand |-> PyStr(s_Gu), price |-> PyNum(100), vec |-> 1]

IngestPool == {ItemA, ItemFree, ItemNegative, ItemNoBrand, ItemNoModel}

InitIngest ==
    /\ items = <<>> /\ index = <<>> /\ call = NoCall
    /\ DefaultStore
    /\ NoRequests
    /\ item_a = PyNone /\ item_b = PyNone /\ total_score = NotCalled
    /\ target_item_input = PyNone /\ all_listings = <<>> /\ estimate = PyNone

\* clean_data(raw_listings); the cleaning script runs on the scraped file
\* before a store is built, and reads nothing of the store
CleanData ==
    \E raw_listings \in {<<>>, RawBatch} \cup {<<l>> : l \in RawListings} :
        /\ call = NoCall /\ items = <<>>
        /\ call' = [op |-> "clean_data", raw_listings |-> raw_listings,
                    cleaned_data |-> clean_data(raw_listings)]
        /\ UNCHANGED <<trendVars, simVars, estVars, storeVars, loadVars>>

\* VectorStore.add_item(item) on a listing as it comes
IngestItem ==
    \E item \in IngestPool, embedded \in BOOLEAN :
        /\ Len(items) < MaxItems
        /\ items' = IF embedded THEN Append(items, item) ELSE items
        /\ index' = IF embedded THEN Append(index, get_embedding(item)) ELSE index
        /\ call' = NoCall
        /\ UNCHANGED <<trendVars, simVars, estVars, loadVars>>

\* VectorStore.add_items(batch) on listings as they come
IngestItems ==
    \E batch \in [1..2 -> IngestPool], embedded \in SUBSET {1, 2}, insert_fails \in BOOLEAN :
        /\ Len(items) + Len(batch) <= MaxItems
        /\ items' = IF embedded # {} /\ ~insert_fails
                    THEN items \o SelectSeq(batch, LAMBDA item : \E i \in embedded : batch[i] = item)
                    ELSE items
        /\ index' = IF embedded # {} /\ ~insert_fails
                    THEN index \o [i \in 1..Len(SelectSeq(batch, LAMBDA item : \E j \in embedded : batch[j] = item)) |->
                                      get_embedding(SelectSeq(batch, LAMBDA item : \E j \in embedded : batch[j] = item)[i])]
                    ELSE index
        /\ call' = NoCall
        /\ UNCHANGED <<trendVars, simVars, estVars, loadVars>>

NextIngest ==
    \/ CleanData
    \/ IngestItem
    \/ IngestItems

SpecIngest == InitIngest /\ [][NextIngest]_vars

\* the price of a cleaned listing or of a stored item is above 0
PositivePrice(price) == price.t = "num" /\ price.n > 0

\* the value is a non-empty str
NonEmptyStr(x) == IsStr(x) /\ x.v[1] # <<>>

\* C11: every listing clean_data lets through, and every item the vector
\* store holds, has a price above 0, a non-empty brand and a non-empty model.
C11_BadListingsRejected ==
    /\ call.op = "clean_data"
         => \A i \in 1..Len(call.cleaned_data) :
                /\ PositivePrice(call.cleaned_data[i].listing_price)
                /\ NonEmptyStr(call.cleaned_data[i].item_details.designer)
                /\ NonEmptyStr(call.cleaned_data[i].item_details.model)
    /\ \A i \in 1..Len(items) :
           /\ PositivePrice(Get(items[i], "price", PyNone))
           /\ NonEmptyStr(Get(items[i], "brand", PyNone))
           /\ NonEmptyStr(Get(items[i], "model", PyNone))

---------------------------------------------------------------------------
(* SpecCond: utils estimate_price called again and again on one corpus of  *)
(* comparables, the target's condition rating changing between the calls   *)

\* the ratings of CONDITION_RATING_TO_SCORE with scores 5, 4, 3, 2 and 1
CondRatings == {s_new, s_excellent, s_very_good, s_good, s_fair}

\* the target of the calls, with the given condition rating
CondTarget(rating) ==
    [designer |-> PyStr(s_Gu), model |-> PyStr(s_Bag),
     condition_rating |-> PyStr(rating),
     item_details |-> [size |-> PyStr(s_M), material |-> PyStr(s_silk),
                       color |-> PyStr(s_red)]]

\* a listing of the target's brand and model in the given condition
CondListing(condition_rating, source_platform, model) ==
    [item_details |-> [designer |-> PyStr(s_Gu), model |-> PyStr(model),
                       size |-> PyStr(s_M), material |-> PyStr(s_silk),
                       color |-> PyStr(s_red)],
     listing_price |-> PyNum(100 * condition_rating),
     condition_rating |-> PyNum(condition_rating),
     source_platform |-> source_platform]

\* the comparables are drawn from these: every condition score, two sources
\* and two degrees of similarity
CondPool == <<
    CondListing(1, "Fashionphile", s_Bag),
    CondListing(2, "other", s_Bag),
    CondListing(3, "Fashionphile", s_BagX),
    CondListing(4, "Vestiaire Collective", s_Bag),
    CondListing(5, "Fashionphile", s_Bag) >>

MaxComparables == 5

\* the non-decreasing sequences over lo..Len(CondPool) of length n
RECURSIVE CondChoices(_, _)
CondChoices(n, lo) ==
    IF n = 0 THEN {<<>>}
    ELSE UNION {{<<k>> \o c : c \in CondChoices(n - 1, k)} : k \in lo..Len(CondPool)}

CondCorpora ==
    UNION {{[i \in 1..n |-> CondPool[c[i]]] : c \in CondChoices(n, 1)} :
              n \in MIN_COMPARABLE_LISTINGS..MaxComparables}

InitCond ==
    /\ target_item_input \in {CondTarget(rating) : rating \in CondRatings}
    /\ all_listings \in CondCorpora
    /\ estimate = PyNone
    /\ item_a = PyNone /\ item_b = PyNone /\ total_score = NotCalled
    /\ items = <<>> /\ index = <<>> /\ call = NoCall
    /\ DefaultStore
    /\ NoRequests

\* estimate_price(target, all_listings, trend_data) for the target in some
\* condition, on the corpus as the calls before left it
EstimateAtCondition ==
    \E rating \in CondRatings :
        /\ estimate' = estimate_price(SetKey(target_item_input, "condition_rating",
                                             PyStr(rating)),
                                      all_listings, DEFAULT_TREND_SCORE)
        /\ target_item_input' = TargetAfter(SetKey(target_item_input, "condition_rating",
                                                   PyStr(rating)))
        /\ all_listings' = ListingsAfter(target_item_input, all_listings)
        /\ UNCHANGED <<trendVars, simVars, ragVars, loadVars>>

NextCond == EstimateAtCondition

SpecCond == InitCond /\ [][NextCond]_vars

\* the estimate for the same comparables and the target in another condition
EstimateAt(rating) ==
    estimate_price(SetKey(target_item_input, "condition_rating", PyStr(rating)),
                   all_listings, DEFAULT_TREND_SCORE)

\* the factor lies strictly inside the clamp band
InsideBand(condition_factor) ==
    MIN_CONDITION_FACTOR < condition_factor /\ condition_factor < MAX_CONDITION_FACTOR

\* C12: for a fixed set of comparables the condition factor lies within
\* [0.7, 1.3]; a higher target condition score never lowers it, raises it
\* strictly while it is strictly inside the band, and leaves it at the upper
\* bound once that is reached.
C12_ConditionFactorMonotone ==
    (estimate # PyNone /\ estimate.status = "ok") =>
        /\ estimate.condition_factor >= MIN_CONDITION_FACTOR
        /\ estimate.condition_factor <= MAX_CONDITION_FACTOR
        /\ \A rating \in CondRatings :
              /\ EstimateAt(rating).status = "ok"
              /\ ConditionScore(rating) = estimate.target_condition_score
                    => EstimateAt(rating).condition_factor = estimate.condition_factor
              /\ ConditionScore(rating) > estimate.target_condition_score
                    => /\ EstimateAt(rating).condition_factor >= estimate.condition_factor
                       /\ InsideBand(estimate.condition_factor)
                            => EstimateAt(rating).condition_factor
                                   > estimate.condition_factor
                       /\ estimate.condition_factor = MAX_CONDITION_FACTOR
                            => EstimateAt(rating).condition_factor = MAX_CONDITION_FACTOR

\* an estimate whose factor is strictly inside the band, for a target that
\* can still be raised to a condition where the factor sits on the bound
C12_Witness ==
    /\ estimate # PyNone
    /\ estimate.status = "ok"
    /\ InsideBand(estimate.condition_factor)
    /\ estimate.target_condition_score < 5
    /\ EstimateAt(s_new).condition_factor = MAX_CONDITION_FACTOR

---------------------------------------------------------------------------
(* SpecLoad: a vector store that is filled, saved to a directory, loaded    *)
(* from it and searched                                                    *)

\* text-embedding-3-large answers vectors of 3072 entries
LargeEmbeddingDim == 3072

EmbeddingDims == {DefaultEmbeddingDim, LargeEmbeddingDim}

\* index.faiss, items.json and metadata.json as save() writes them for a
\* store of the given dimension holding the given items
SavedFiles(saved_embedding_dim, saved_index_d, saved_items, saved_index) ==
    [exists |-> TRUE,
     missing |-> {},
     unreadable |-> {},
     metadata |-> [embedding_dim |-> saved_embedding_dim, num_items |-> Len(saved_items)],
     index |-> [d |-> saved_index_d, vectors |-> saved_index],
     items |-> saved_items]

\* the items of the stores of this section
LoadPool == {ItemA, ItemB}

\* the ways a saved directory may be damaged: [missing, unreadable]
Damages ==
    {<<{}, {}>>, <<{"items.json"}, {}>>, <<{}, {"metadata.json"}>>,
     <<{}, {"index.faiss"}>>, <<{}, {"items.json"}>>}

\* what an earlier run of the program may have left on disk: nothing, a saved
\* store of either dimension, or a directory in which one of the files is
\* missing or cannot be read
SavedDirectories ==
    {NoDirectory}
    \cup {[SavedFiles(d, d, its, [i \in 1..Len(its) |-> get_embedding(its[i])])
              EXCEPT !.missing = damage[1], !.unreadable = damage[2]] :
            d \in EmbeddingDims,
            its \in {<<>>, <<ItemA>>, <<ItemA, ItemB>>},
            damage \in Damages}

\* VectorStore(embedding_dim) with an embedder of some dimension, beside the
\* directory an earlier run left
InitLoad ==
    /\ embedding_dim \in EmbeddingDims
    /\ index_d = embedding_dim
    /\ embedder_dim \in EmbeddingDims
    /\ directory \in SavedDirectories
    /\ NoRequests
    /\ items = <<>> /\ index = <<>> /\ call = NoCall
    /\ item_a = PyNone /\ item_b = PyNone /\ total_score = NotCalled
    /\ target_item_input = PyNone /\ all_listings = <<>> /\ estimate = PyNone

\* VectorStore.add_item(item): the item is appended when the provider embeds
\* it and index.add takes the vector; index.add checks the vector's length
\* against index.d with an assert, so a vector of another length is refused
\* or, in a run without asserts, added all the same
StoreItem ==
    \E item \in LoadPool, embedded \in BOOLEAN, insert_fails \in BOOLEAN :
        LET added == embedded /\ ~insert_fails
        IN  /\ Len(items) < MaxItems
            /\ items' = IF added THEN Append(items, item) ELSE items
            /\ index' = IF added THEN Append(index, get_embedding(item)) ELSE index
            /\ call' = [op |-> "add_item", result |-> added]
            /\ UNCHANGED <<trendVars, simVars, estVars, loadVars>>

\* the batches add_items is called with
LoadBatches == {<<ItemA, ItemB>>}

\* VectorStore.add_items(batch); embedded: the positions of the batch the
\* provider gave an embedding for; insert_fails: index.add raises
StoreItems ==
    \E batch \in LoadBatches, embedded \in SUBSET {1, 2}, insert_fails \in BOOLEAN :
        LET items_to_add == SelectSeq([i \in 1..Len(batch) |-> i],
                                      LAMBDA i : i \in embedded)
            added == items_to_add # <<>> /\ ~insert_fails
        IN  /\ Len(items) + Len(batch) <= MaxItems
            /\ items' = IF added
                        THEN items \o [i \in 1..Len(items_to_add) |-> batch[items_to_add[i]]]
                        ELSE items
            /\ index' = IF added
                        THEN index \o [i \in 1..Len(items_to_add) |->
                                          get_embedding(batch[items_to_add[i]])]
                        ELSE index
            /\ call' = [op |-> "add_items",
                        result |-> IF added THEN Len(items_to_add) ELSE 0]
            /\ UNCHANGED <<trendVars, simVars, estVars, loadVars>>

\* VectorStore.save(directory)
Save ==
    /\ directory' = SavedFiles(embedding_dim, index_d, items, index)
    /\ call' = [op |-> "save", result |-> TRUE]
    /\ UNCHANGED <<trendVars, simVars, estVars, storeVars, embedding_dim, index_d, embedder_dim>>

\* load() finds the directory and its three files
FilesPresent(dir) == dir.exists /\ dir.missing = {}

\* the number of files load() has read when it returns: metadata.json, then
\* index.faiss, then items.json (lines 364-375); a file that cannot be read
\* raises, and the except of line 379 makes load return False
FilesRead(dir) ==
    IF ~FilesPresent(dir) \/ "metadata.json" \in dir.unreadable THEN 0
    ELSE IF "index.faiss" \in dir.unreadable THEN 1
    ELSE IF "items.json" \in dir.unreadable THEN 2
    ELSE 3

\* VectorStore.load(directory): embedding_dim, index and items are replaced,
\* one after the other, by what the files hold
Load ==
    /\ embedding_dim' = IF FilesRead(directory) >= 1
                        THEN directory.metadata.embedding_dim ELSE embedding_dim
    /\ index_d' = IF FilesRead(directory) >= 2 THEN directory.index.d ELSE index_d
    /\ index' = IF FilesRead(directory) >= 2 THEN directory.index.vectors ELSE index
    /\ items' = IF FilesRead(directory) >= 3 THEN directory.items ELSE items
    /\ call' = [op |-> "load", result |-> FilesRead(directory) = 3]
    /\ UNCHANGED <<trendVars, simVars, estVars, embedder_dim, directory>>

\* how VectorStore.search(query, k) with a non-empty query ends: with [] on
\* an empty index or when the provider gives no embedding; otherwise
\* index.search is called with the query's vector. Its assert on the vector's
\* length raises when the length is not index.d; a run without asserts
\* searches the index all the same.
SearchOutcomes(store_index, store_index_d, query_dim, provider_up) ==
    IF store_index = <<>> \/ ~provider_up THEN {"empty"}
    ELSE IF query_dim = store_index_d THEN {"searched"}
    ELSE {"raised", "searched"}

\* VectorStore.search(query, k)
SearchLoaded ==
    \E provider_up \in BOOLEAN :
        \E outcome \in SearchOutcomes(index, index_d, embedder_dim, provider_up) :
            /\ call' = [op |-> "search", outcome |-> outcome,
                        index_called |-> (index # <<>> /\ provider_up),
                        query_dim |-> embedder_dim, index_d |-> index_d]
            /\ UNCHANGED <<trendVars, simVars, estVars, storeVars, loadVars>>

NextLoad ==
    \/ StoreItem
    \/ StoreItems
    \/ Save
    \/ Load
    \/ SearchLoaded

SpecLoad == InitLoad /\ [][NextLoad]_vars

\* C14: load returns True only when the dimension in the saved metadata, the
\* dimension of the loaded index and the dimension of the embedder agree, and
\* no search hands the index a query vector of another dimension.
C14_LoadValidatesDimension ==
    /\ (call.op = "load" /\ call.result)
          => (embedding_dim = index_d /\ index_d = embedder_dim)
    /\ (call.op = "search" /\ call.index_called) => call.query_dim = call.index_d

\* C29: after any sequence of add_item, add_items, save and load calls, also
\* when an embedding is unavailable or the index insert fails, the index
\* holds as many vectors as there are stored items and the i-th vector is
\* the embedding of the i-th item.
C29_IndexMatchesItems ==
    /\ Len(index) = Len(items)
    /\ \A i \in 1..Min(Len(index), Len(items)) : index[i] = get_embedding(items[i])

\* C30: when load returns False, the store's index, items and embedding_dim
\* are what they were before the call.
C30_FailedLoadChangesNothing ==
    [][(call'.op = "load" /\ ~call'.result)
          => (index' = index /\ index_d' = index_d /\ items' = items
                /\ embedding_dim' = embedding_dim)]_vars

---------------------------------------------------------------------------
(* services/pricing_logic.py: the table estimator                          *)

\* base_prices (lines 47-153): per brand, the models and their prices
base_prices == <<
    [brand |-> <<"c", "h", "a", "n", "e", "l">>,
     models |-> <<
          [model |-> <<"c", "l", "a", "s", "s", "i", "c", " ", "f", "l", "a", "p">>, price |-> 8800],
          [model |-> <<"b", "o", "y", " ", "b", "a", "g">>, price |-> 5200],
          [model |-> <<"2", ".", "5", "5">>, price |-> 7000],
          [model |-> <<"g", "a", "b", "r", "i", "e", "l", "l", "e">>, price |-> 4200],
          [model |-> <<"w", "a", "l", "l", "e", "t", " ", "o", "n", " ", "c", "h", "a", "i", "n">>, price |-> 2750] >>],
    [brand |-> <<"l", "o", "u", "i", "s", " ", "v", "u", "i", "t", "t", "o", "n">>,
     models |-> <<
          [model |-> <<"n", "e", "v", "e", "r", "f", "u", "l", "l">>, price |-> 1540],
          [model |-> <<"s", "p", "e", "e", "d", "y">>, price |-> 1200],
          [model |-> <<"p", "o", "c", "h", "e", "t", "t", "e", " ", "m", "e", "t", "i", "s">>, price |-> 2030],
          [model |-> <<"a", "l", "m", "a">>, price |-> 1620],
          [model |-> <<"k", "e", "e", "p", "a", "l", "l">>, price |-> 1990] >>],
    [brand |-> <<"h", "e", "r", "m", "e", "s">>,
     models |-> <<
          [model |-> <<"b", "i", "r", "k", "i", "n">>, price |-> 12000],
          [model |-> <<"k", "e", "l", "l", "y">>, price |-> 10000],
          [model |-> <<"c", "o", "n", "s", "t", "a", "n", "c", "e">>, price |-> 7800],
          [model |-> <<"g", "a", "r", "d", "e", "n", " ", "p", "a", "r", "t", "y">>, price |-> 3700],
          [model |-> <<"l", "i", "n", "d", "y">>, price |-> 7800] >>],
    [brand |-> <<"g", "u", "c", "c", "i">>,
     models |-> <<
          [model |-> <<"m", "a", "r", "m", "o", "n", "t">>, price |-> 2300],
          [model |-> <<"d", "i", "o", "n", "y", "s", "u", "s">>, price |-> 2150],
          [model |-> <<"o", "p", "h", "i", "d", "i", "a">>, price |-> 1200],
          [model |-> <<"b", "a", "m", "b", "o", "o">>, price |-> 2800],
          [model |-> <<"j", "a", "c", "k", "i", "e">>, price |-> 1980] >>],
    [brand |-> <<"d", "i", "o", "r">>,
     models |-> <<
          [model |-> <<"l", "a", "d", "y", " ", "d", "i", "o", "r">>, price |-> 5300],
          [model |-> <<"s", "a", "d", "d", "l", "e">>, price |-> 3800],
          [model |-> <<"b", "o", "o", "k", " ", "t", "o", "t", "e">>, price |-> 3200],
          [model |-> <<"d", "i", "o", "r", "a", "m", "a">>, price |-> 3400],
          [model |-> <<"m", "o", "n", "t", "a", "i", "g", "n", "e">>, price |-> 3500] >>],
    [brand |-> <<"p", "r", "a", "d", "a">>,
     models |-> <<
          [model |-> <<"g", "a", "l", "l", "e", "r", "i", "a">>, price |-> 2700],
          [model |-> <<"c", "a", "h", "i", "e", "r">>, price |-> 3100],
          [model |-> <<"n", "y", "l", "o", "n", " ", "b", "a", "c", "k", "p", "a", "c", "k">>, price |-> 1690],
          [model |-> <<"d", "o", "u", "b", "l", "e", " ", "b", "a", "g">>, price |-> 3200],
          [model |-> <<"r", "e", "-", "e", "d", "i", "t", "i", "o", "n">>, price |-> 1200] >>],
    [brand |-> <<"c", "e", "l", "i", "n", "e">>,
     models |-> <<
          [model |-> <<"l", "u", "g", "g", "a", "g", "e">>, price |-> 2900],
          [model |-> <<"b", "e", "l", "t", " ", "b", "a", "g">>, price |-> 2500],
          [model |-> <<"t", "r", "i", "o">>, price |-> 1150],
          [model |-> <<"b", "o", "x">>, price |-> 4350],
          [model |-> <<"p", "h", "a", "n", "t", "o", "m">>, price |-> 2200] >>],
    [brand |-> <<"b", "o", "t", "t", "e", "g", "a", " ", "v", "e", "n", "e", "t", "a">>,
     models |-> <<
          [model |-> <<"c", "a", "s", "s", "e", "t", "t", "e">>, price |-> 3800],
          [model |-> <<"p", "o", "u", "c", "h">>, price |-> 2800],
          [model |-> <<"a", "r", "c", "o">>, price |-> 2800],
          [model |-> <<"j", "o", "d", "i", "e">>, price |-> 2250],
          [model |-> <<"v", "e", "n", "e", "t", "a">>, price |-> 2100] >>],
    [brand |-> <<"f", "e", "n", "d", "i">>,
     models |-> <<
          [model |-> <<"b", "a", "g", "u", "e", "t", "t", "e">>, price |-> 2950],
          [model |-> <<"p", "e", "e", "k", "a", "b", "o", "o">>, price |-> 4550],
          [model |-> <<"b", "y", " ", "t", "h", "e", " ", "w", "a", "y">>, price |-> 1750],
          [model |-> <<"k", "a", "n", " ", "i">>, price |-> 2490],
          [model |-> <<"s", "u", "n", "s", "h", "i", "n", "e", " ", "s", "h", "o", "p", "p", "e", "r">>, price |-> 2290] >>],
    [brand |-> <<"b", "a", "l", "e", "n", "c", "i", "a", "g", "a">>,
     models |-> <<
          [model |-> <<"c", "i", "t", "y">>, price |-> 1950],
          [model |-> <<"h", "o", "u", "r", "g", "l", "a", "s", "s">>, price |-> 2250],
          [model |-> <<"n", "e", "o", " ", "c", "l", "a", "s", "s", "i", "c">>, price |-> 2090],
          [model |-> <<"l", "e", " ", "c", "a", "g", "o", "l", "e">>, price |-> 2300],
          [model |-> <<"m", "o", "t", "o", "r", "c", "y", "c", "l", "e">>, price |-> 1850] >>],
    [brand |-> <<"c", "a", "r", "t", "i", "e", "r">>,
     models |-> <<
          [model |-> <<"l", "o", "v", "e", " ", "b", "r", "a", "c", "e", "l", "e", "t">>, price |-> 6900],
          [model |-> <<"j", "u", "s", "t", "e", " ", "u", "n", " ", "c", "l", "o", "u">>, price |-> 7250],
          [model |-> <<"t", "r", "i", "n", "i", "t", "y", " ", "r", "i", "n", "g">>, price |-> 1320],
          [model |-> <<"p", "a", "n", "t", "h", "e", "r", "e", " ", "w", "a", "t", "c", "h">>, price |-> 4000],
          [model |-> <<"s", "a", "n", "t", "o", "s", " ", "w", "a", "t", "c", "h">>, price |-> 7000] >>],
    [brand |-> <<"r", "o", "l", "e", "x">>,
     models |-> <<
          [model |-> <<"s", "u", "b", "m", "a", "r", "i", "n", "e", "r">>, price |-> 9150],
          [model |-> <<"d", "a", "t", "e", "j", "u", "s", "t">>, price |-> 7050],
          [model |-> <<"d", "a", "y", "t", "o", "n", "a">>, price |-> 14550],
          [model |-> <<"g", "m", "t", " ", "m", "a", "s", "t", "e", "r">>, price |-> 10750],
          [model |-> <<"d", "a", "y", " ", "d", "a", "t", "e">>, price |-> 36550] >>],
    [brand |-> <<"o", "m", "e", "g", "a">>,
     models |-> <<
          [model |-> <<"s", "p", "e", "e", "d", "m", "a", "s", "t", "e", "r">>, price |-> 6300],
          [model |-> <<"s", "e", "a", "m", "a", "s", "t", "e", "r">>, price |-> 5200],
          [model |-> <<"c", "o", "n", "s", "t", "e", "l", "l", "a", "t", "i", "o", "n">>, price |-> 5900],
          [model |-> <<"d", "e", " ", "v", "i", "l", "l", "e">>, price |-> 4900],
          [model |-> <<"a", "q", "u", "a", " ", "t", "e", "r", "r", "a">>, price |-> 5700] >>],
    [brand |-> <<"p", "a", "t", "e", "k", " ", "p", "h", "i", "l", "i", "p", "p", "e">>,
     models |-> <<
          [model |-> <<"n", "a", "u", "t", "i", "l", "u", "s">>, price |-> 34000],
          [model |-> <<"c", "a", "l", "a", "t", "r", "a", "v", "a">>, price |-> 23000],
          [model |-> <<"a", "q", "u", "a", "n", "a", "u", "t">>, price |-> 21000],
          [model |-> <<"g", "r", "a", "n", "d", " ", "c", "o", "m", "p", "l", "i", "c", "a", "t", "i", "o", "n", "s">>, price |-> 80000],
          [model |-> <<"t", "w", "e", "n", "t", "y", "~", "4">>, price |-> 13000] >>],
    [brand |-> <<"a", "u", "d", "e", "m", "a", "r", "s", " ", "p", "i", "g", "u", "e", "t">>,
     models |-> <<
          [model |-> <<"r", "o", "y", "a", "l", " ", "o", "a", "k">>, price |-> 32000],
          [model |-> <<"r", "o", "y", "a", "l", " ", "o", "a", "k", " ", "o", "f", "f", "s", "h", "o", "r", "e">>, price |-> 45000],
          [model |-> <<"c", "o", "d", "e", " ", "1", "1", ".", "5", "9">>, price |-> 26000],
          [model |-> <<"m", "i", "l", "l", "e", "n", "a", "r", "y">>, price |-> 28000],
          [model |-> <<"j", "u", "l", "e", "s", " ", "a", "u", "d", "e", "m", "a", "r", "s">>, price |-> 25000] >>] >>

\* condition_mapping (lines 172-187), in the order the dict is iterated
condition_mapping == <<
    <<<<"m", "i", "n", "t">>, "new">>,
    <<<<"p", "r", "i", "s", "t", "i", "n", "e">>, "new">>,
    <<<<"b", "r", "a", "n", "d", " ", "n", "e", "w">>, "new">>,
    <<<<"l", "i", "k", "e", " ", "n", "e", "w">>, "excellent">>,
    <<<<"n", "e", "a", "r", " ", "m", "i", "n", "t">>, "excellent">>,
    <<<<"v", "e", "r", "y", " ", "g", "o", "o", "d">>, "very good">>,
    <<<<"u", "s", "e", "d">>, "good">>,
    <<<<"n", "o", "r", "m", "a", "l", " ", "w", "e", "a", "r">>, "good">>,
    <<<<"w", "o", "r", "n">>, "good">>,
    <<<<"f", "a", "i", "r">>, "fair">>,
    <<<<"a", "c", "c", "e", "p", "t", "a", "b", "l", "e">>, "fair">>,
    <<<<"p", "o", "o", "r">>, "poor">>,
    <<<<"d", "a", "m", "a", "g", "e", "d">>, "poor">>,
    <<<<"f", "o", "r", " ", "p", "a", "r", "t", "s">>, "poor">> >>

\* every price of the table, brand after brand
RECURSIVE AllPricesFrom(_)
AllPricesFrom(i) ==
    IF i > Len(base_prices) THEN <<>>
    ELSE [j \in 1..Len(base_prices[i].models) |-> base_prices[i].models[j].price]
             \o AllPricesFrom(i + 1)

\* brand_lower in base_prices
BrandKnown(brand_lower) == \E i \in 1..Len(base_prices) : base_prices[i].brand = brand_lower

\* base_prices[brand_lower]
BrandData(brand_lower) ==
    base_prices[CHOOSE i \in 1..Len(base_prices) : base_prices[i].brand = brand_lower].models

\* model_lower in brand_data
ExactModel(brand_data, model_lower) ==
    \E j \in 1..Len(brand_data) : brand_data[j].model = model_lower

\* the entries of matches (lines 215-218): the key is part of the model's
\* name or the model's name part of the key
FuzzyMatches(brand_data, model_lower) ==
    SelectSeq(brand_data,
              LAMBDA e : Contains(e.model, model_lower) \/ Contains(model_lower, e.model))

PricesOf(entries) == [j \in 1..Len(entries) |-> entries[j].price]

\* the four outcomes of the lookup (lines 197-244): base_price is
\* base_sum / base_count, band is the half-width of price_range in percent
LookupResult(prices, confidence, band) ==
    [base_sum |-> SumSeq(prices), base_count |-> Len(prices),
     confidence |-> confidence, band |-> band]

KnownBrandLookup(brand_data, model_lower) ==
    IF ExactModel(brand_data, model_lower)
    THEN LookupResult(PricesOf(SelectSeq(brand_data, LAMBDA e : e.model = model_lower)),
                      "high", 15)
    ELSE IF FuzzyMatches(brand_data, model_lower) # <<>>
    THEN LookupResult(PricesOf(FuzzyMatches(brand_data, model_lower)), "medium", 25)
    ELSE LookupResult(PricesOf(brand_data), "low", 40)

TableLookup(brand_lower, model_lower) ==
    IF BrandKnown(brand_lower) THEN KnownBrandLookup(BrandData(brand_lower), model_lower)
    ELSE LookupResult(AllPricesFrom(1), "very low", 50)

\* standardized_condition (lines 190-194): the value of the first key of
\* condition_mapping found in the condition, else 'excellent'
StandardizedCondition(condition) ==
    IF \A i \in 1..Len(condition_mapping) : ~Contains(condition_mapping[i][1], condition)
    THEN "excellent"
    ELSE condition_mapping[CHOOSE i \in 1..Len(condition_mapping) :
                               /\ Contains(condition_mapping[i][1], condition)
                               /\ \A j \in 1..(i - 1) :
                                      ~Contains(condition_mapping[j][1], condition)][2]

\* condition_adjustments.get(standardized_condition, 1.0), in twentieths
condition_adjustments(standardized_condition) ==
    CASE standardized_condition = "new" -> 22
      [] standardized_condition = "excellent" -> 20
      [] standardized_condition = "very good" -> 18
      [] standardized_condition = "good" -> 15
      [] standardized_condition = "fair" -> 12
      [] standardized_condition = "poor" -> 8
      [] OTHER -> 20

\* 0.85 + trend_score * 0.3 in twentieths, 1 when no trend score is given;
\* trend_score is in thousandths, and the trend scores of the model (0, 0.5
\* and 1) give whole twentieths
TableTrendFactor(trend_score) ==
    IF trend_score = NotGiven THEN 20 ELSE 17 + (trend_score * 6) \div 1000

\* round(num / den) for num >= 0: halves go to the even neighbour
RoundHalfEven(num, den) ==
    IF 2 * (num % den) < den THEN num \div den
    ELSE IF 2 * (num % den) > den THEN num \div den + 1
    ELSE IF (num \div den) % 2 = 0 THEN num \div den
    ELSE num \div den + 1

\* one bound of price_range: int(base_price * (1 -+ band)), then
\* int(bound * trend_factor) when a trend score is given (lines 254-255).
\* The products are exact here; the float product of the code can fall one
\* unit short of a whole number.
RangeBound(lookup, percent, trend_factor) ==
    (((lookup.base_sum * percent) \div (lookup.base_count * 100)) * trend_factor) \div 20

\* the result dict of lines 246-277
TableResult(lookup, standardized_condition, trend_score, trend_factor) ==
    [estimated_price |->
         10 * RoundHalfEven(lookup.base_sum * condition_adjustments(standardized_condition)
                                * trend_factor,
                            lookup.base_count * 20 * 20 * 10),
     price_range |-> [min |-> RangeBound(lookup, 100 - lookup.band, trend_factor),
                      max |-> RangeBound(lookup, 100 + lookup.band, trend_factor)],
     confidence |-> lookup.confidence,
     condition_adjusted |-> standardized_condition,
     condition_factor |-> condition_adjustments(standardized_condition),
     base_price |-> lookup.base_sum \div lookup.base_count]
    @@ (IF trend_score = NotGiven THEN <<>>
        ELSE [trend_score |-> trend_score, trend_factor |-> trend_factor])

\* lines 166-277 for a brand and a model that are given: lower() raises on a
\* brand, model or condition that is not a str, and the except clause of
\* lines 279-285 answers
TableEstimate(brand, model, condition, trend_score) ==
    IF ~IsStr(brand) \/ ~IsStr(model) \/ ~IsStr(condition)
    THEN [error |-> "AttributeError", estimated_price |-> 0, confidence |-> "error"]
    ELSE TableResult(TableLookup(Lower(brand.v[1]), Lower(model.v[1])),
                     StandardizedCondition(Lower(condition.v[1])),
                     trend_score, TableTrendFactor(trend_score))

\* estimate_price(item, trend_score) of services/pricing_logic.py
services_estimate_price(item, trend_score) ==
    IF ~Truthy(Or(Get(item, "brand", PyStr(<<>>)), Get(item, "designer", PyStr(<<>>))))
       \/ ~Truthy(Or(Get(item, "model", PyStr(<<>>)), Get(item, "style", PyStr(<<>>))))
    THEN [error |-> "Missing brand or model information", estimated_price |-> 0,
          confidence |-> "none"]
    ELSE TableEstimate(Or(Get(item, "brand", PyStr(<<>>)), Get(item, "designer", PyStr(<<>>))),
                       Or(Get(item, "model", PyStr(<<>>)), Get(item, "style", PyStr(<<>>))),
                       Get(item, "condition", PyStr(s_excellent)),
                       trend_score)

---------------------------------------------------------------------------
(* SpecQuote: price estimates asked of the table estimator and of the RAG   *)
(* pricing engine over a store of listings                                  *)

s_Chanel == <<"C", "h", "a", "n", "e", "l">>
s_Classic_Flap == <<"C", "l", "a", "s", "s", "i", "c", " ", "F", "l", "a", "p">>
s_flap == <<"f", "l", "a", "p">>
s_kelly == <<"k", "e", "l", "l", "y">>
s_Fair == <<"F", "a", "i", "r">>
s_mint == <<"m", "i", "n", "t">>
s_poor == <<"p", "o", "o", "r">>

\* the items the table estimator is asked about
QuoteItems ==
    {Opt(b # Absent, "brand", b) @@ Opt(d # Absent, "designer", d)
       @@ Opt(m # Absent, "model", m) @@ Opt(s # Absent, "style", s)
       @@ Opt(c # Absent, "condition", c) :
        b \in {PyStr(s_Chanel), PyStr(s_Gu), PyStr(<<>>), Absent},
        d \in {PyStr(s_Chanel), Absent},
        m \in {PyStr(s_Classic_Flap), PyStr(s_flap), PyStr(s_kelly), Absent},
        s \in {PyStr(s_flap), Absent},
        c \in {PyStr(s_Fair), PyStr(s_mint), PyStr(s_poor), PyNone, Absent}}

\* the trend scores an estimate is asked with, in thousandths
QuoteTrendScores == {NotGiven, 0, 500, 1000}

\* the listings of the store: one brand only, with and without a price
ItemU == [id |-> "u", brand |-> PyStr(s_Pr), model |-> PyStr(s_Bag), vec |-> 2]

StockPool == {ItemC, ItemU}

\* the items the engine is asked about: a brand the store has no listing of
\* and the brand of the store's listings
QuoteTargets ==
    {[brand |-> PyStr(s_Gu), model |-> PyStr(s_Bag)],
     [brand |-> PyStr(s_Pr), model |-> PyStr(s_Bag)]}

MaxStock == 6

InitQuote ==
    /\ items = <<>> /\ index = <<>> /\ call = NoCall
    /\ DefaultStore
    /\ NoRequests
    /\ item_a = PyNone /\ item_b = PyNone /\ total_score = NotCalled
    /\ target_item_input = PyNone /\ all_listings = <<>> /\ estimate = PyNone

\* VectorStore.add_item(item) on a listing the provider embeds
Stock ==
    \E item \in StockPool :
        /\ Len(items) < MaxStock
        /\ items' = Append(items, item)
        /\ index' = Append(index, get_embedding(item))
        /\ call' = NoCall
        /\ UNCHANGED <<trendVars, simVars, estVars, loadVars>>

\* estimate_price(item, trend_score) of services/pricing_logic.py; it reads
\* its table and nothing of the store
TableQuote ==
    \E item \in QuoteItems, trend_score \in QuoteTrendScores :
        /\ call = NoCall /\ items = <<>>
        /\ call' = [op |-> "table_estimate", item |-> item, trend_score |-> trend_score,
                    result |-> services_estimate_price(item, trend_score)]
        /\ UNCHANGED <<trendVars, simVars, estVars, storeVars, loadVars>>

\* RAGPricingEngine.estimate_price(item_info, trend_score, condition_rating)
EngineQuote ==
    \E item_info \in QuoteTargets, adj \in EngineAdjustments,
       query_embedding \in {1, NoEmbedding} :
        /\ call = NoCall
        /\ call' = [op |-> "engine_estimate", item_info |-> item_info,
                    trend_score |-> adj[1], condition_rating |-> adj[2],
                    query_embedding |-> query_embedding,
                    result |-> rag_estimate_price(TRUE, items, index, item_info,
                                                  adj[1], adj[2], query_embedding)]
        /\ UNCHANGED <<trendVars, simVars, estVars, storeVars, loadVars>>

NextQuote ==
    \/ Stock
    \/ TableQuote
    \/ EngineQuote

SpecQuote == InitQuote /\ [][NextQuote]_vars

\* an estimate has been answered without an error
Quoted == call.op \in {"table_estimate", "engine_estimate"} /\ "error" \notin DOMAIN call.result

\* C15: every estimate answered without an error has
\* price_range.min <= estimated_price <= price_range.max.
C15_EstimateWithinRange ==
    Quoted => /\ call.result.price_range.min <= call.result.estimated_price
              /\ call.result.estimated_price <= call.result.price_range.max

\* the brand an estimate is asked for: brand, else designer
QuoteBrand(item) == Or(Get(item, "brand", PyStr(<<>>)), Get(item, "designer", PyStr(<<>>)))

\* the table estimator is asked about a brand and a model in a condition it
\* can read
TableTargetValid(item) ==
    /\ Truthy(QuoteBrand(item)) /\ IsStr(QuoteBrand(item))
    /\ Truthy(Or(Get(item, "model", PyStr(<<>>)), Get(item, "style", PyStr(<<>>))))
    /\ IsStr(Get(item, "condition", PyStr(s_excellent)))

\* the store holds a listing of the brand, whatever the spelling's case
BrandListed(store_items, brand) ==
    \E i \in 1..Len(store_items) :
        /\ IsStr(Get(store_items[i], "brand", PyNone))
        /\ Lower(store_items[i].brand.v[1]) = Lower(brand.v[1])

\* C16: an estimate for a brand without any table entry or listing carries
\* the confidence label "very low", and an estimate for a brand that has one
\* never does.
C16_UnknownBrandVeryLow ==
    /\ (call.op = "table_estimate" /\ TableTargetValid(call.item))
          => ((call.result.confidence = "very low")
                 <=> ~BrandKnown(Lower(QuoteBrand(call.item).v[1])))
    /\ (call.op = "engine_estimate" /\ "error" \notin DOMAIN call.result)
          => ((call.result.confidence = "very low")
                 <=> ~BrandListed(items, QuoteBrand(call.item_info)))

\* the order of the confidence labels, the error labels lowest
LabelRank(confidence) ==
    CASE confidence = "high" -> 3
      [] confidence = "medium" -> 2
      [] confidence = "low" -> 1
      [] OTHER -> 0

\* how well the table matches the target: 3 for the model's own entry, 2 for
\* entries that share part of its name, 1 for the brand alone, 0 for none
MatchQuality(brand_lower, model_lower) ==
    IF ~BrandKnown(brand_lower) THEN 0
    ELSE IF ExactModel(BrandData(brand_lower), model_lower) THEN 3
    ELSE IF FuzzyMatches(BrandData(brand_lower), model_lower) # <<>> THEN 2
    ELSE 1

\* the label and the half-width of the band, in percent, that go with a match
QualityLabel(quality) ==
    CASE quality = 3 -> "high" [] quality = 2 -> "medium"
      [] quality = 1 -> "low" [] OTHER -> "very low"

QualityBand(quality) ==
    CASE quality = 3 -> 15 [] quality = 2 -> 25 [] quality = 1 -> 40 [] OTHER -> 50

\* the quality of the match for the target of a table estimate
QuoteQuality(item) ==
    MatchQuality(Lower(QuoteBrand(item).v[1]),
                 Lower(Or(Get(item, "model", PyStr(<<>>)),
                          Get(item, "style", PyStr(<<>>))).v[1]))

\* price_range is as wide as twice the band around base_price times the
\* trend factor, up to six units for the truncations of int(); widths are
\* compared in units of 1/2000 (percent times twentieths)
BandIs(result, band, trend_factor) ==
    /\ (result.price_range.max - result.price_range.min) * 2000
          <= 2 * band * (result.base_price + 1) * trend_factor + 6 * 2000
    /\ (result.price_range.max - result.price_range.min) * 2000
          >= 2 * band * result.base_price * trend_factor - 6 * 2000

\* the engine's estimate for the same request once a priced listing has been
\* added to the store
EngineQuoteAfterAdding(item) ==
    rag_estimate_price(TRUE, Append(items, item), Append(index, get_embedding(item)),
                       call.item_info, call.trend_score, call.condition_rating,
                       call.query_embedding)

\* C17: the confidence label follows the evidence. In the engine a further
\* priced comparable never lowers it (low < medium < high); in the table
\* estimator the model's own entry gives "high" and a 15% band, a partial
\* match "medium" and 25%, the brand alone "low" and 40%, no brand "very low"
\* and 50%.
C17_ConfidenceMonotone ==
    /\ call.op = "engine_estimate"
          => LabelRank(EngineQuoteAfterAdding(ItemC).confidence)
                 >= LabelRank(call.result.confidence)
    /\ (call.op = "table_estimate" /\ "error" \notin DOMAIN call.result)
          => /\ call.result.confidence = QualityLabel(QuoteQuality(call.item))
             /\ BandIs(call.result, QualityBand(QuoteQuality(call.item)),
                       TableTrendFactor(call.trend_score))

\* an estimate of the engine from four prices, labelled "medium", which a
\* fifth price lifts to "high"
C17_Witness ==
    /\ call.op = "engine_estimate"
    /\ call.result.confidence = "medium"
    /\ call.result.matched_items_count = 4
    /\ EngineQuoteAfterAdding(ItemC).confidence = "high"

---------------------------------------------------------------------------
(* SpecAsk: the numbers of candidates LuxuryItemsRetriever.search asks of   *)
(* the vector search and of the lexical search                             *)

MaxTopK == 60

InitAsk ==
    /\ call = NoCall
    /\ items = <<>> /\ index = <<>>
    /\ DefaultStore
    /\ NoRequests
    /\ item_a = PyNone /\ item_b = PyNone /\ total_score = NotCalled
    /\ target_item_input = PyNone /\ all_listings = <<>> /\ estimate = PyNone

\* the requests of search(query, top_k, use_hybrid_search): _hybrid_search
\* passes its top_k to vector_store.search and to the BM25 retriever (lines
\* 152-155), _vector_search to vector_store.search; without hybrid search
\* there is no lexical search
Requests(top_k, use_hybrid_search) ==
    [op |-> "request", top_k |-> top_k, use_hybrid_search |-> use_hybrid_search,
     vector_k |-> CandidateCount(top_k),
     lexical_k |-> IF use_hybrid_search THEN CandidateCount(top_k) ELSE 0]

\* LuxuryItemsRetriever.search(query, top_k, use_hybrid_search) up to its
\* retrieval calls
SearchRequests ==
    \E top_k \in 1..MaxTopK, use_hybrid_search \in BOOLEAN :
        /\ call = NoCall
        /\ call' = Requests(top_k, use_hybrid_search) @@ [caller |-> "search"]
        /\ UNCHANGED <<trendVars, simVars, estVars, storeVars, loadVars>>

\* LuxuryItemRAGService.get_similar_items(target_item) with its defaults:
\* top_k and use_hybrid_search go to search unchanged
ServiceRequests ==
    /\ call = NoCall
    /\ call' = Requests(ServiceTopK, TRUE) @@ [caller |-> "get_similar_items"]
    /\ UNCHANGED <<trendVars, simVars, estVars, storeVars, loadVars>>

NextAsk ==
    \/ SearchRequests
    \/ ServiceRequests

SpecAsk == InitAsk /\ [][NextAsk]_vars

\* C24: for every top_k >= 1, search requests strictly more than top_k
\* candidates from the vector search and from the lexical search, the default
\* top_k = 20 of the service's get_similar_items included.
C24_RequestsExceedTopK ==
    call.op = "request"
        => /\ call.vector_k > call.top_k
           /\ call.use_hybrid_search => call.lexical_k > call.top_k

---------------------------------------------------------------------------
(* SpecTrend: estimate_price requests whose trend score is looked up by     *)
(* get_trend_score and, for an item the trend file does not hold, generated *)
(* and saved by get_or_generate_trend_data (utils/data_loader.py).  The     *)
(* requests run concurrently; reading the file and writing it are single    *)
(* steps.                                                                   *)

\* the items the requests are for
TrendTargets ==
    {[designer |-> s_Gu, model |-> s_Bag], [designer |-> s_Pr, model |-> s_Bag]}

\* the trend scores get_real_trend_data may answer, in thousandths
GeneratedScores == {250, 750}

\* an entry of the trend data
TrendEntry(target, trend_score) ==
    [designer |-> target.designer, model |-> target.model, trend_score |-> trend_score]

\* what TRENDS_FILE, the mock trend data, holds
MockTrendData == <<TrendEntry([designer |-> s_Gu, model |-> s_BagX], 500)>>

\* the states REAL_TRENDS_FILE may be in before the requests
TrendFiles ==
    {NoFile, FileWith(<<>>),
     FileWith(<<TrendEntry([designer |-> s_gu, model |-> s_Bag], 1000)>>)}

MaxRequests == 2

\* a request that has not looked up its trend score yet
NewRequest(target) ==
    [target |-> target, pc |-> "read", trend_data |-> <<>>,
     new_trend_data |-> PyNone, trend_score |-> NotCalled]

InitTrend ==
    /\ trend_file \in TrendFiles
    /\ requests \in UNION {[1..n -> {NewRequest(t) : t \in TrendTargets}] :
                              n \in 1..MaxRequests}
    /\ call = NoCall
    /\ items = <<>> /\ index = <<>>
    /\ DefaultStore
    /\ item_a = PyNone /\ item_b = PyNone /\ total_score = NotCalled
    /\ target_item_input = PyNone /\ all_listings = <<>> /\ estimate = PyNone

\* get_trend_score_data(): the real trend data when its file is there, else
\* the mock trend data
get_trend_score_data(file) == IF file.exists THEN file.data ELSE MockTrendData

\* the entry's designer and model are the target's, ignoring case
TrendMatches(entry, target) ==
    /\ Lower(entry.designer) = Lower(target.designer)
    /\ Lower(entry.model) = Lower(target.model)

\* the first entry of the trend data for the target; PyNone when there is none
CachedTrend(trend_data, target) ==
    LET hits == {i \in 1..Len(trend_data) : TrendMatches(trend_data[i], target)}
    IN  IF hits = {} THEN PyNone
        ELSE trend_data[CHOOSE i \in hits : \A j \in hits : i <= j]

\* get_or_generate_trend_data, lines 283-291: a request reads the trend data
\* and returns the cached entry when there is one
ReadTrendData ==
    \E r \in 1..Len(requests) :
        LET trend_data == get_trend_score_data(trend_file)
            cached == CachedTrend(trend_data, requests[r].target)
        IN  /\ requests[r].pc = "read"
            /\ requests' =
                   [requests EXCEPT
                       ![r] = IF cached # PyNone
                              THEN [requests[r] EXCEPT
                                       !.pc = "done", !.trend_data = trend_data,
                                       !.trend_score = cached.trend_score]
                              ELSE [requests[r] EXCEPT
                                       !.pc = "generate", !.trend_data = trend_data]]
            /\ UNCHANGED <<trend_file, simVars, estVars, ragVars, loadVars>>

\* line 294: get_real_trend_data fetches the trend data of the item
GenerateTrendData ==
    \E r \in 1..Len(requests), trend_score \in GeneratedScores :
        /\ requests[r].pc = "generate"
        /\ requests' =
               [requests EXCEPT
                   ![r] = [requests[r] EXCEPT
                              !.pc = "save",
                              !.new_trend_data =
                                  TrendEntry(requests[r].target, trend_score)]]
        /\ UNCHANGED <<trend_file, simVars, estVars, ragVars, loadVars>>

\* lines 297-300: the new entry is appended to the list the request read and
\* save_trend_data writes the list over the file; get_trend_score returns the
\* new entry's score
SaveTrendData ==
    \E r \in 1..Len(requests) :
        /\ requests[r].pc = "save"
        /\ trend_file' = FileWith(Append(requests[r].trend_data,
                                         requests[r].new_trend_data))
        /\ requests' =
               [requests EXCEPT
                   ![r] = [requests[r] EXCEPT
                              !.pc = "done",
                              !.trend_data = Append(requests[r].trend_data,
                                                    requests[r].new_trend_data),
                              !.trend_score = requests[r].new_trend_data.trend_score]]
        /\ UNCHANGED <<simVars, estVars, ragVars, loadVars>>

NextTrend ==
    \/ ReadTrendData
    \/ GenerateTrendData
    \/ SaveTrendData

SpecTrend == InitTrend /\ [][NextTrend]_vars

\* every request has its trend score
AllDone == \A r \in 1..Len(requests) : requests[r].pc = "done"

\* two requests for different items, each of which generated its trend data
TwoGenerated ==
    /\ Len(requests) = 2
    /\ requests[1].target # requests[2].target
    /\ requests[1].new_trend_data # PyNone
    /\ requests[2].new_trend_data # PyNone

\* C27: after two concurrent requests for different items whose trend data
\* was not stored have finished, the persisted trend data holds the entry
\* generated for each of them, and each request's trend score is the one
\* generated for its item, as when it runs alone.
C27_NoLostUpdate ==
    (AllDone /\ TwoGenerated)
        => \A r \in 1..2 :
               /\ \E i \in 1..Len(trend_file.data) :
                      trend_file.data[i] = requests[r].new_trend_data
               /\ requests[r].trend_score = requests[r].new_trend_data.trend_score

====
